---------------------------- MODULE Spec2Model ----------------------------
(***************************************************************************)
(* niauth-js: the SRP-6a roles (lib/SRP.js), the codec they rest on        *)
(* (lib/Utils.js, lib/Base64.js) and the login session controller          *)
(* (index.js), as a state machine.                                         *)
(*                                                                         *)
(* Representation of the JavaScript values:                                *)
(*   BigInteger        a natural number                                    *)
(*   byte array        a sequence of integers (jsbn's toByteArray yields   *)
(*                     int8 values, so bytes may be negative)              *)
(*   hash/hex string   a sequence of hex digits, each a number 0..15       *)
(*   other strings     a sequence of one-character strings                 *)
(*   object            a function from field names to values; a field      *)
(*                     that was never assigned is not in its DOMAIN        *)
(***************************************************************************)
EXTENDS Integers, Sequences, FiniteSets, TLC

\* ------------------------------------------------------------------ bounds

\* Ephemeral secrets a and b are drawn from 0..MaxSecret (512 bits in the code).
MaxSecret == 2
\* Number of controller calls (login, logout, updateFromSession) in one run;
\* any of them may be in flight at once.
MaxCalls == 2
\* Public keys a peer forges are drawn from 0..MaxForged (and the modulus).
MaxForged == 5
\* Width in bytes every integer is padded to before it is hashed or sent: 128
\* in the code, for moduli of 1024 bits; the moduli of the model have 8 bits.
PadBytes == 2

\* The utilities are applied to the numbers 0..MaxNatural (and a few wider
\* ones) at the widths 0..MaxWidth, to hex strings of at most MaxHexLen digits,
\* to parameter strings of at most MaxSegments segments and to Base64 texts of
\* at most MaxUrlLen characters.
MaxNatural == 600
MaxWidth == 3
MaxHexLen == 5
MaxSegments == 2
MaxUrlLen == 3

\* ------------------------------------------------------- program constants

\* Width of the generator in the client proof.
GenBytes == 1
\* Width of a digest in bytes (20 for SHA-1; the digest model below is narrower).
DigestBytes == 2
\* Number of digest values of the digest model.
HashMod == 11

\* ------------------------------------------------------------------- codec

\* JavaScript's (b & 0xFF) for an int8 or uint8 value.
And255(b) == b % 256

RECURSIVE UnsignedBytes(_)
UnsignedBytes(n) ==
    IF n < 256 THEN <<n>> ELSE Append(UnsignedBytes(n \div 256), n % 256)

\* F applied to v: names a value that is computed once and used several times.
With(v, F(_)) == F(v)

\* jsbn's BigInteger.toByteArray for n >= 0: big-endian two's complement of
\* minimal length, each byte an int8 (a leading 0 keeps the sign positive).
toByteArray(n) ==
    LET u == UnsignedBytes(n)
        s == [i \in 1..Len(u) |-> IF u[i] >= 128 THEN u[i] - 256 ELSE u[i]]
    IN  IF u[1] >= 128 THEN <<0>> \o s ELSE s

\* The result of a call that may throw: [ok |-> TRUE, val |-> v] or
\* [ok |-> FALSE, err |-> message].
Ok(v) == [ok |-> TRUE, val |-> v]
Throw(e) == [ok |-> FALSE, err |-> e]

\* bigIntegerToBytes dropping the excess leading bytes whatever they hold.
bigIntegerToBytes_Truncating(bi, byteCount) ==
    With(toByteArray(bi), LAMBDA bytes :
        IF Len(bytes) = byteCount THEN Ok(bytes)
        ELSE IF Len(bytes) < byteCount
        THEN Ok([i \in 1..(byteCount - Len(bytes)) |-> 0] \o bytes)
        ELSE Ok(SubSeq(bytes, Len(bytes) - byteCount + 1, Len(bytes))))

bigIntegerToBytes(bi, byteCount) ==
    With(toByteArray(bi), LAMBDA bytes :
        IF Len(bytes) = byteCount THEN Ok(bytes)
        ELSE IF Len(bytes) < byteCount
        THEN Ok([i \in 1..(byteCount - Len(bytes)) |-> 0] \o bytes)
        ELSE LET leaders == SubSeq(bytes, 1, Len(bytes) - byteCount)
             IN  IF \E i \in 1..Len(leaders) : leaders[i] # 0
                 THEN Throw("attmpted to truncate")
                 ELSE Ok(SubSeq(bytes, Len(bytes) - byteCount + 1, Len(bytes))))

\* byteArrayToHashString without the mask of the low eight bits.
byteArrayToHashString_NoMask(ar) ==
    [i \in 1..(2 * Len(ar)) |->
       IF i % 2 = 1 THEN ar[(i + 1) \div 2] \div 16
       ELSE ar[i \div 2] % 16]

\* Two hex digits per byte, high digit first.
byteArrayToHashString(ar) ==
    [i \in 1..(2 * Len(ar)) |->
       IF i % 2 = 1 THEN And255(ar[(i + 1) \div 2]) \div 16
       ELSE And255(ar[i \div 2]) % 16]

\* parseInt(str.substr(i, 2), 16) for every pair of hex digits.
hashStringToByteArray(str) ==
    [i \in 1..((Len(str) + 1) \div 2) |->
       IF 2 * i <= Len(str) THEN 16 * str[2 * i - 1] + str[2 * i]
       ELSE str[2 * i - 1]]

\* new BigInteger(hex, 16) for a string of hex digits.
RECURSIVE HexToBigInteger(_)
HexToBigInteger(hex) ==
    IF hex = <<>> THEN 0
    ELSE 16 * HexToBigInteger(SubSeq(hex, 1, Len(hex) - 1)) + hex[Len(hex)]

\* Number.toString(16) as a sequence of hex digits.
RECURSIVE ToHex(_)
ToHex(n) == IF n < 16 THEN <<n>> ELSE Append(ToHex(n \div 16), n % 16)

\* ('0000' + s).substr(-w): the last w characters of s left-padded with zeros.
PadLeft(s, w) ==
    LET t == [i \in 1..w |-> 0] \o s
    IN  SubSeq(t, Len(t) - w + 1, Len(t))

RECURSIVE BitXor(_, _)
BitXor(a, b) ==
    IF a = 0 THEN b
    ELSE IF b = 0 THEN a
    ELSE 2 * BitXor(a \div 2, b \div 2) + (((a % 2) + (b % 2)) % 2)

RECURSIVE XorChunks(_, _, _)
XorChunks(a, b, i) ==
    IF i > Len(a) THEN <<>>
    ELSE LET hi == IF i + 3 <= Len(a) THEN i + 3 ELSE Len(a)
             ac == HexToBigInteger(SubSeq(a, i, hi))
             bc == HexToBigInteger(SubSeq(b, i, hi))
         IN  PadLeft(ToHex(BitXor(ac, bc)), 4) \o XorChunks(a, b, i + 4)

\* xorHashStrings returning the empty string for strings of different lengths.
xorHashStrings_SwallowsMismatch(a, b) ==
    IF Len(a) # Len(b) THEN Ok(<<>>)
    ELSE Ok(XorChunks(a, b, 1))

xorHashStrings(a, b) ==
    IF Len(a) # Len(b) THEN Throw("strings not same length")
    ELSE Ok(XorChunks(a, b, 1))

\* Printable ASCII, codes 32..126, in order (the double quote, the backslash
\* and the backtick are place holders: no string of the model holds them).
Ascii ==
    << " ", "!", "<dquote>", "#", "$", "%", "&", "'", "(", ")", "*", "+", ",", "-",
       ".", "/", "0", "1", "2", "3", "4", "5", "6", "7", "8", "9", ":", ";",
       "<", "=", ">", "?", "@", "A", "B", "C", "D", "E", "F", "G", "H", "I",
       "J", "K", "L", "M", "N", "O", "P", "Q", "R", "S", "T", "U", "V", "W",
       "X", "Y", "Z", "[", "<backslash>", "]", "^", "_", "<backtick>", "a", "b", "c", "d", "e",
       "f", "g", "h", "i", "j", "k", "l", "m", "n", "o", "p", "q", "r", "s",
       "t", "u", "v", "w", "x", "y", "z", "{", "|", "}", "~" >>

\* str.charCodeAt for a printable character.
CharCode(c) == 31 + (CHOOSE i \in 1..Len(Ascii) : Ascii[i] = c)

\* The bytes of a string of printable characters.
StrBytes(str) == [i \in 1..Len(str) |-> CharCode(str[i])]

Base64Alphabet ==
    << "A", "B", "C", "D", "E", "F", "G", "H", "I", "J", "K", "L", "M", "N",
       "O", "P", "Q", "R", "S", "T", "U", "V", "W", "X", "Y", "Z", "a", "b",
       "c", "d", "e", "f", "g", "h", "i", "j", "k", "l", "m", "n", "o", "p",
       "q", "r", "s", "t", "u", "v", "w", "x", "y", "z", "0", "1", "2", "3",
       "4", "5", "6", "7", "8", "9", "+", "/" >>

\* The 6-bit value of a Base64 character ('-' and '_' are read as '+' and
\* '/', as Buffer does), or -1 for a character outside the alphabet.
Base64Value(c) ==
    IF c = "-" THEN 62
    ELSE IF c = "_" THEN 63
    ELSE IF \E i \in 1..64 : Base64Alphabet[i] = c
    THEN (CHOOSE i \in 1..64 : Base64Alphabet[i] = c) - 1
    ELSE -1

RECURSIVE Base64Sextets(_, _)
Base64Sextets(str, i) ==
    IF i > Len(str) \/ str[i] = "=" THEN <<>>
    ELSE IF Base64Value(str[i]) = -1 THEN Base64Sextets(str, i + 1)
    ELSE <<Base64Value(str[i])>> \o Base64Sextets(str, i + 1)

RECURSIVE SextetsToBytes(_, _)
SextetsToBytes(sx, i) ==
    LET rest == Len(sx) - i + 1
    IN  IF rest <= 1 THEN <<>>
        ELSE IF rest = 2
        THEN <<sx[i] * 4 + sx[i + 1] \div 16>>
        ELSE IF rest = 3
        THEN <<sx[i] * 4 + sx[i + 1] \div 16,
               (sx[i + 1] % 16) * 16 + sx[i + 2] \div 4>>
        ELSE <<sx[i] * 4 + sx[i + 1] \div 16,
               (sx[i + 1] % 16) * 16 + sx[i + 2] \div 4,
               (sx[i + 2] % 4) * 64 + sx[i + 3]>> \o SextetsToBytes(sx, i + 4)

\* Base64.decode: new Buffer(str, 'base64') copied into an array.
Base64Decode(str) == SextetsToBytes(Base64Sextets(str, 1), 1)

RECURSIVE Base64EncodeFrom(_, _)
Base64EncodeFrom(arr, i) ==
    LET rest == Len(arr) - i + 1
        ch(n) == Base64Alphabet[n + 1]
    IN  IF rest <= 0 THEN <<>>
        ELSE IF rest = 1
        THEN <<ch(arr[i] \div 4), ch((arr[i] % 4) * 16), "=", "=">>
        ELSE IF rest = 2
        THEN <<ch(arr[i] \div 4), ch((arr[i] % 4) * 16 + arr[i + 1] \div 16),
               ch((arr[i + 1] % 16) * 4), "=">>
        ELSE <<ch(arr[i] \div 4), ch((arr[i] % 4) * 16 + arr[i + 1] \div 16),
               ch((arr[i + 1] % 16) * 4 + arr[i + 2] \div 64),
               ch(arr[i + 2] % 64)>> \o Base64EncodeFrom(arr, i + 3)

\* Base64.encode: new Buffer(arr).toString('base64'); Buffer keeps the low
\* eight bits of every element.
Base64Encode(arr) ==
    Base64EncodeFrom([i \in 1..Len(arr) |-> And255(arr[i])], 1)

b64tohex(b64str) ==
    LET decoded == Base64Decode(b64str)
    IN  [i \in 1..(2 * Len(decoded)) |->
           IF i % 2 = 1 THEN decoded[(i + 1) \div 2] \div 16
           ELSE decoded[i \div 2] % 16]

hexStringToBase64(str) == Base64Encode(hashStringToByteArray(str))

\* Fails exactly when bigIntegerToBytes does.
bigIntToBase64(ba, len) ==
    With(bigIntegerToBytes(ba, len), LAMBDA bytes :
        IF bytes.ok
        THEN Ok(Base64Encode([i \in 1..Len(bytes.val) |-> And255(bytes.val[i])]))
        ELSE bytes)

\* makeUrlBase64 dropping the padding.
makeUrlBase64_NoPadding(regularBase64Str) ==
    [i \in 1..Len(regularBase64Str) |->
       IF regularBase64Str[i] = "+" THEN "-"
       ELSE IF regularBase64Str[i] \in {"/", "="} THEN "_"
       ELSE regularBase64Str[i]]

makeUrlBase64(regularBase64Str) ==
    [i \in 1..Len(regularBase64Str) |->
       IF regularBase64Str[i] = "+" THEN "-"
       ELSE IF regularBase64Str[i] = "/" THEN "_"
       ELSE regularBase64Str[i]]

\* --------------------------------------------------------- hash primitives

RECURSIVE DigestRange(_, _, _)
DigestRange(bytes, lo, hi) ==
    IF lo > hi THEN 0
    ELSE IF lo = hi THEN ((And255(bytes[lo]) + 1) * ((lo % 5) + 1)) % HashMod
    ELSE LET mid == (lo + hi) \div 2
         IN  (DigestRange(bytes, lo, mid) + DigestRange(bytes, mid + 1, hi))
                 % HashMod

\* SHA1(bytes): the digest of a byte array as a hex string of 2 * DigestBytes
\* digits.  The digest is modelled as a deterministic function of the low
\* eight bits of every byte, of its position and of the length, with HashMod
\* values, so that the value 0 is a digest some inputs have.
SHA1(bytes) ==
    PadLeft(ToHex((DigestRange(bytes, 1, Len(bytes)) + Len(bytes)) % HashMod),
            2 * DigestBytes)

\* MGF1 mask generation function with SHA1 hash.
MGF1SHA1(byteArray) ==
    SHA1(byteArray \o <<0, 0, 0, 0>>) \o SHA1(byteArray \o <<0, 0, 0, 1>>)

\* ---------------------------------------------------------------- SRP math

\* jsbn's modPow: base^e mod m, for e >= 0 and m > 0.
RECURSIVE ModPow(_, _, _)
ModPow(base, e, m) ==
    IF e = 0 THEN 1 % m
    ELSE LET h == ModPow(base, e \div 2, m)
             q == (h * h) % m
         IN  IF e % 2 = 1 THEN (q * (base % m)) % m ELSE q

\* The first failure of two results, or f applied to their values.
Both(r1, r2, f(_, _)) ==
    IF ~r1.ok THEN r1 ELSE IF ~r2.ok THEN r2 ELSE Ok(f(r1.val, r2.val))

SRP_A(N, g, a) == ModPow(g, a, N)

SRP_k(N, g) ==
    LET hash(Nb, gb) == HexToBigInteger(SHA1(Nb \o gb))
    IN  Both(bigIntegerToBytes(N, PadBytes), bigIntegerToBytes(g, PadBytes), hash)

SRP_B(N, g, v, b) ==
    With(SRP_k(N, g), LAMBDA kk :
        IF kk.ok THEN Ok((kk.val * v + ModPow(g, b, N)) % N) ELSE kk)

SRP_u(A, B) ==
    LET hash(Ab, Bb) == HexToBigInteger(SHA1(Ab \o Bb))
    IN  Both(bigIntegerToBytes(A, PadBytes), bigIntegerToBytes(B, PadBytes), hash)

\* username and password are strings; the salt is a byte array.
SRP_x(salt, username, password) ==
    LET concat1 == StrBytes(username) \o <<CharCode(":")>> \o StrBytes(password)
        concat2 == salt \o hashStringToByteArray(SHA1(concat1))
    IN  HexToBigInteger(SHA1(concat2))

SRP_Sc_NoMultiplier(N, g, B, k, x, a, u) ==
    ModPow(B + (N - ModPow(g, x, N)), a + u * x, N)

SRP_Sc(N, g, B, k, x, a, u) ==
    ModPow(B + ((k * (N - ModPow(g, x, N))) % N), a + u * x, N)

SRP_Ss(N, A, v, u, b) == ModPow(A * ModPow(v, u, N), b, N)

SRP_K(S) ==
    With(bigIntegerToBytes(S, PadBytes), LAMBDA Sb :
        IF Sb.ok THEN Ok(hashStringToByteArray(MGF1SHA1(Sb.val))) ELSE Sb)

SRP_Mc(N, g, username, salt, A, B, K) ==
    With(bigIntegerToBytes(N, PadBytes), LAMBDA Nb :
    With(bigIntegerToBytes(g, GenBytes), LAMBDA gb :
        IF ~Nb.ok THEN Nb
        ELSE IF ~gb.ok THEN gb
        ELSE
        With(xorHashStrings(SHA1(Nb.val), SHA1(gb.val)), LAMBDA xored :
        With(bigIntegerToBytes(A, PadBytes), LAMBDA Ab :
        With(bigIntegerToBytes(B, PadBytes), LAMBDA Bb :
            LET shau == hashStringToByteArray(SHA1(StrBytes(username)))
            IN  IF ~xored.ok THEN xored
                ELSE IF ~Ab.ok THEN Ab
                ELSE IF ~Bb.ok THEN Bb
                ELSE Ok(SHA1(hashStringToByteArray(xored.val) \o shau \o salt
                             \o Ab.val \o Bb.val \o K)))))))

SRP_Ms(A, M, K) ==
    With(bigIntegerToBytes(A, PadBytes), LAMBDA Ab :
        IF Ab.ok THEN Ok(SHA1(Ab.val \o hashStringToByteArray(M) \o K)) ELSE Ab)

SRP_v(N, g, x) == ModPow(g, x, N)

\* ---------------------------------------------------------- protocol roles

\* obj.hasOwnProperty(f), and the assignment obj.f = v.
Has(obj, f) == f \in DOMAIN obj
Set(obj, f, v) == (f :> v) @@ obj

\* new SRP.Client(): an object with no field of its own.
Client == [class |-> "Client"]

Client_setIdentity(this, identity) ==
    Set(Set(this, "username", identity.username), "password", identity.password)

\* setServerInfo storing the fields as it finds them, up to the first that is
\* missing.
Client_setServerInfo_Partial(this, serverInfo) ==
    IF ~Has(serverInfo, "modulus") THEN Ok(this)
    ELSE IF ~Has(serverInfo, "generator")
    THEN Ok(Set(this, "modulus", serverInfo.modulus))
    ELSE IF ~Has(serverInfo, "salt")
    THEN Ok(Set(Set(this, "modulus", serverInfo.modulus),
                "generator", serverInfo.generator))
    ELSE IF ~Has(serverInfo, "serverPublicKey")
    THEN Ok(Set(Set(Set(this, "modulus", serverInfo.modulus),
                    "generator", serverInfo.generator),
                "salt", serverInfo.salt))
    ELSE Ok(Set(Set(Set(Set(this, "modulus", serverInfo.modulus),
                        "generator", serverInfo.generator),
                    "salt", serverInfo.salt),
                "serverPublicKey", serverInfo.serverPublicKey))

\* setServerInfo taking the fields it is given and keeping the others.
Client_setServerInfo_Lenient(this, serverInfo) ==
    IF \E f \in {"modulus", "generator", "salt", "serverPublicKey"} :
          ~Has(serverInfo, f)
    THEN Ok(this)
    ELSE Ok(Set(Set(Set(Set(this, "modulus", serverInfo.modulus),
                        "generator", serverInfo.generator),
                    "salt", serverInfo.salt),
                "serverPublicKey", serverInfo.serverPublicKey))

Client_setServerInfo(this, serverInfo) ==
    IF ~Has(serverInfo, "modulus") THEN Throw("serverInfo needs modulus")
    ELSE IF ~Has(serverInfo, "generator") THEN Throw("serverInfo needs generator")
    ELSE IF ~Has(serverInfo, "salt") THEN Throw("serverInfo needs salt")
    ELSE IF ~Has(serverInfo, "serverPublicKey")
    THEN Throw("serverInfo needs serverPublicKey")
    ELSE Ok(Set(Set(Set(Set(this, "modulus", serverInfo.modulus),
                        "generator", serverInfo.generator),
                    "salt", serverInfo.salt),
                "serverPublicKey", serverInfo.serverPublicKey))

\* A call of a role's method: whether it returned, what it returned or threw,
\* the role object afterwards, and how many numbers it drew from rng.
Returned(val, this, draws) ==
    [ok |-> TRUE, val |-> val, err |-> "", this |-> this, draws |-> draws]
Thrown(err, this, draws) ==
    [ok |-> FALSE, val |-> <<>>, err |-> err, this |-> this, draws |-> draws]

\* username || '' and password || '': an unset field reads as the empty string.
OrEmpty(obj, f) == IF Has(obj, f) THEN obj[f] ELSE <<>>

\* generatePublicKeyAndProof drawing the ephemeral before the check of B.
Client_generate_DrawsFirst(this, a) ==
    IF \E f \in {"modulus", "generator", "salt", "serverPublicKey"} : ~Has(this, f)
    THEN Thrown("TypeError", this, 0)
    ELSE
    LET N == this.modulus
        B == this.serverPublicKey
        A == SRP_A(N, this.generator, a)
    IN  IF B % N = 0 THEN Thrown("precondition fail", this, 1)
        ELSE
        With(SRP_u(A, B), LAMBDA u :
        With(SRP_k(N, this.generator), LAMBDA k :
            IF ~u.ok THEN Thrown(u.err, this, 1)
            ELSE IF u.val = 0 \/ k.val = 0 THEN Thrown("precondition fail", this, 1)
            ELSE
            With(SRP_K(SRP_Sc(N, this.generator, B, k.val,
                              SRP_x(this.salt, OrEmpty(this, "username"),
                                    OrEmpty(this, "password")),
                              a, u.val)), LAMBDA K :
                Returned([clientPublicKey |-> A,
                          clientProof |->
                              SRP_Mc(N, this.generator, OrEmpty(this, "username"),
                                     this.salt, A, B, K.val).val],
                         Set(this, "sharedKey", K.val), 1))))

\* generatePublicKeyAndProof with a the number SRP.a() draws.
Client_generatePublicKeyAndProof(this, a) ==
    IF ~Has(this, "serverPublicKey") \/ ~Has(this, "modulus")
    THEN Thrown("TypeError", this, 0)
    ELSE
    LET N == this.modulus
        B == this.serverPublicKey
    IN  IF B % N = 0 THEN Thrown("precondition fail", this, 0)
        ELSE IF ~Has(this, "generator") THEN Thrown("invalid argument", this, 1)
        ELSE
        LET g == this.generator
            A == SRP_A(N, g, a)
        IN  With(SRP_u(A, B), LAMBDA u :
            IF ~u.ok THEN Thrown(u.err, this, 1)
            ELSE IF u.val = 0 THEN Thrown("precondition fail", this, 1)
            ELSE
            With(SRP_k(N, g), LAMBDA k :
                IF ~k.ok THEN Thrown(k.err, this, 1)
                ELSE IF k.val = 0 THEN Thrown("precondition fail", this, 1)
                ELSE IF ~Has(this, "salt") THEN Thrown("invalid argument", this, 1)
                ELSE
                LET s == this.salt
                    x == SRP_x(s, OrEmpty(this, "username"), OrEmpty(this, "password"))
                    S == SRP_Sc(N, g, B, k.val, x, a, u.val)
                IN  With(SRP_K(S), LAMBDA K :
                    With(IF K.ok
                         THEN SRP_Mc(N, g, OrEmpty(this, "username"), s, A, B, K.val)
                         ELSE K, LAMBDA M :
                        IF ~M.ok THEN Thrown(M.err, this, 1)
                        ELSE Returned([clientPublicKey |-> A, clientProof |-> M.val],
                                      Set(this, "sharedKey", K.val), 1)))))

\* new SRP.Server(lookupFunc).
Server(lookupFunc) == [class |-> "Server", lookupFunc |-> lookupFunc]

\* startLogin with b the number SRP.b() draws; lookupFunc is a function from
\* the usernames it knows to their entries {n, g, v, s}.
Server_startLogin(this, username, b) ==
    IF username \notin DOMAIN this.lookupFunc THEN Thrown("TypeError", this, 0)
    ELSE
    LET entry == this.lookupFunc[username]
        N == HexToBigInteger(byteArrayToHashString(entry.n))
        g == HexToBigInteger(byteArrayToHashString(entry.g))
        v == HexToBigInteger(byteArrayToHashString(entry.v))
        s == entry.s
    IN  With(SRP_B(N, g, v, b), LAMBDA B :
        IF ~B.ok THEN Thrown(B.err, this, 1)
        ELSE Returned([modulus |-> N, generator |-> g, salt |-> s,
                       serverPublicKey |-> B.val],
                      Set(Set(Set(Set(Set(Set(this, "modulus", N), "generator", g),
                                      "salt", s), "serverPrivateKey", b),
                              "serverPublicKey", B.val), "verifier", v),
                      1))

\* finishLogin comparing the client's proof with the proof it computes for
\* the registered user, and refusing another.
Server_finishLogin_Comparing(this, clientParams) ==
    IF ~Has(this, "serverPublicKey") THEN Thrown("invalid argument", this, 0)
    ELSE
    With(SRP_u(clientParams.clientPublicKey, this.serverPublicKey), LAMBDA u :
        IF ~u.ok THEN Thrown(u.err, this, 0)
        ELSE IF u.val = 0 THEN Thrown("precondition fail", this, 0)
        ELSE
        With(SRP_K(SRP_Ss(this.modulus, clientParams.clientPublicKey, this.verifier,
                          u.val, this.serverPrivateKey)), LAMBDA K :
            IF \E username \in DOMAIN this.lookupFunc :
                  clientParams.clientProof =
                      SRP_Mc(this.modulus, this.generator, username, this.salt,
                             clientParams.clientPublicKey, this.serverPublicKey,
                             K.val).val
            THEN Returned([serverProof |-> SRP_Ms(clientParams.clientPublicKey,
                                                  clientParams.clientProof,
                                                  K.val).val],
                          Set(this, "sharedKey", K.val), 0)
            ELSE Thrown("proof mismatch", this, 0)))

\* finishLogin without the check of u.
Server_finishLogin_NoCheck(this, clientParams) ==
    IF ~Has(this, "serverPublicKey") THEN Thrown("invalid argument", this, 0)
    ELSE
    With(SRP_u(clientParams.clientPublicKey, this.serverPublicKey), LAMBDA u :
        IF ~u.ok THEN Thrown("invalid argument", this, 0)
        ELSE
        With(SRP_K(SRP_Ss(this.modulus, clientParams.clientPublicKey, this.verifier,
                          u.val, this.serverPrivateKey)), LAMBDA K :
            Returned([serverProof |-> SRP_Ms(clientParams.clientPublicKey,
                                             clientParams.clientProof, K.val).val],
                     Set(this, "sharedKey", K.val), 0)))

Server_finishLogin(this, clientParams) ==
    IF ~Has(this, "serverPublicKey") THEN Thrown("invalid argument", this, 0)
    ELSE
    LET N == this.modulus
        B == this.serverPublicKey
        b == this.serverPrivateKey
        v == this.verifier
        A == clientParams.clientPublicKey
        Mc == clientParams.clientProof
    IN  With(SRP_u(A, B), LAMBDA u :
        IF ~u.ok THEN Thrown(u.err, this, 0)
        ELSE IF u.val = 0 THEN Thrown("precondition fail", this, 0)
        ELSE
        With(SRP_K(SRP_Ss(N, A, v, u.val, b)), LAMBDA K :
        With(IF K.ok THEN SRP_Ms(A, Mc, K.val) ELSE K, LAMBDA M :
            IF ~M.ok THEN Thrown(M.err, this, 0)
            ELSE Returned([serverProof |-> M.val], Set(this, "sharedKey", K.val), 0))))

\* ----------------------------------------------------------------- state

VARIABLES
    srpClient,        \* the SRP.Client (index.js keeps one for every login)
    srpServer,        \* an SRP.Server
    challenge,        \* what startLogin returned last, on its way to the client
    clientParams,     \* what generatePublicKeyAndProof returned last
    lastCall,         \* the latest call of a role's method and its outcome
    _loggedInUser,    \* index.js: the user name getUserName returns
    cachedPermissions, \* index.js: the permission set hasPermission reads
    pending,          \* the controller operations in flight, oldest first
    lastStep,         \* the latest step of a controller operation
    calls             \* the number of controller calls so far

\* The cache: undefined until a permission set is stored.
Undefined == [defined |-> FALSE, own |-> <<>>, plain |-> TRUE]

\* A response: its status, its X-NI-AUTH-PARAMS header, its body as text and
\* the document parseXML makes of the body.
Response(status, header, text, xml) ==
    [status |-> status, header |-> header, text |-> text, xml |-> xml]

\* No controller operation has taken a step yet.
NoStep ==
    [op |-> "none", username |-> <<>>, password |-> <<>>, cookie |-> FALSE,
     pc |-> "none", followup |-> "none",
     before |-> [user |-> <<>>, perms |-> Undefined], alone |-> TRUE, got |-> <<>>, sent |-> <<>>, settled |-> FALSE,
     resolved |-> FALSE, value |-> "", error |-> <<>>, permName |-> <<>>,
     requests |-> 0]

\* An SRP.Server and what travels between the roles.
serverVars == <<srpServer, challenge, clientParams, lastCall>>
\* The state of index.js besides its SRP client.
controllerVars == <<_loggedInUser, cachedPermissions, pending, lastStep, calls>>

vars == <<srpClient, serverVars, controllerVars>>

\* ------------------------------------- the roles against each other

Usernames == {<<"a">>, <<"b">>}
Passwords == {<<"p">>, <<"q">>}
Salts == {<<1>>, <<2, 255>>}
\* (N, g) pairs a verifier entry may name; the multiplier of the second is 0
\* under the digest at PadBytes = 2.
EntryGroups == {<<23, 11>>, <<59, 5>>}

\* An entry {n, g, v, s} of the verifier store, for a user registered with
\* password under the group (N, g) and salt.
VerifierEntry(N, g, salt, username, password) ==
    [n |-> UnsignedBytes(N), g |-> UnsignedBytes(g),
     v |-> UnsignedBytes(SRP_v(N, g, SRP_x(salt, username, password))),
     s |-> salt]

\* The stores the server may be constructed over: user "a" is registered
\* with password "p", under any of the groups and salts.
LookupFuncs ==
    {(<<"a">> :> VerifierEntry(grp[1], grp[2], salt, <<"a">>, <<"p">>)) :
        grp \in EntryGroups, salt \in Salts}

\* The record of a call of a role's method: its argument, the number it drew
\* (rnd, when it drew one), its outcome, and whether it changed the role.
NoCall == [op |-> "none", ok |-> TRUE, err |-> "", val |-> <<>>, draws |-> 0,
           arg |-> <<>>, rnd |-> 0, changed |-> FALSE]

Call(op, arg, rnd, before, r) ==
    [op |-> op, ok |-> r.ok, err |-> r.err, val |-> r.val, draws |-> r.draws,
     arg |-> arg, rnd |-> rnd, changed |-> (r.this # before)]

RoleInit ==
    /\ srpClient = Client
    /\ srpServer \in {Server(f) : f \in LookupFuncs}
    /\ challenge = <<>>
    /\ clientParams = <<>>
    /\ lastCall = [client |-> NoCall, server |-> NoCall]
    /\ _loggedInUser = <<>>
    /\ cachedPermissions = Undefined
    /\ pending = <<>>
    /\ lastStep = NoStep
    /\ calls = 0

Drop(obj, f) == [k \in DOMAIN obj \ {f} |-> obj[k]]

RECURSIVE Pow(_, _)
Pow(base, e) == IF e = 0 THEN 1 ELSE base * Pow(base, e - 1)

\* The least number above 256^PadBytes that is no multiple of N: a public key
\* that does not fit the padded width.
Oversize(N) ==
    LET top == Pow(256, PadBytes) IN IF (top + 1) % N = 0 THEN top + 2 ELSE top + 1

\* What the challenge in flight may reach the client as: itself, or with
\* another public key (0, N, or one too wide to pad), or with a field missing.
ServerInfos ==
    IF challenge = <<>> THEN {}
    ELSE LET ch == challenge[1]
         IN  {ch, [ch EXCEPT !.serverPublicKey = 0],
              [ch EXCEPT !.serverPublicKey = ch.modulus],
              [ch EXCEPT !.serverPublicKey = Oversize(ch.modulus)]}
             \cup {Drop(ch, f) : f \in DOMAIN ch}

\* What the client parameters in flight may reach the server as: themselves,
\* or with another proof, or replaced by a forged public key.
ClientParamsSent ==
    LET forged == {[clientPublicKey |-> A, clientProof |-> <<0, 0, 0, 0>>] :
                      A \in (0..MaxForged) \cup
                            (IF Has(srpServer, "modulus")
                             THEN {srpServer.modulus} ELSE {})}
    IN  IF clientParams = <<>> THEN {}
        ELSE {clientParams[1],
              [clientParams[1] EXCEPT !.clientProof = <<0, 0, 0, 0>>]} \cup forged

\* The roles are driven through one handshake: the server starts a login once,
\* the client generates until it has a shared key; what travels between them
\* may be replaced on the way, and the challenge may be delivered again.
RoleSetIdentity(username, password) ==
    LET identity == [username |-> username, password |-> password]
        this == Client_setIdentity(srpClient, identity)
    IN  /\ srpClient' = this
        /\ lastCall' = [lastCall EXCEPT !.client =
                           Call("setIdentity", identity, 0, srpClient,
                                Returned(<<>>, this, 0))]
        /\ UNCHANGED <<srpServer, challenge, clientParams, controllerVars>>

RoleStartLogin(username, b) ==
    \E r \in {Server_startLogin(srpServer, username, b)} :
        /\ ~Has(srpServer, "serverPublicKey")
        /\ srpServer' = r.this
        /\ challenge' = IF r.ok THEN <<r.val>> ELSE challenge
        /\ lastCall' = [lastCall EXCEPT !.server =
                           Call("startLogin", username, b, srpServer, r)]
        /\ UNCHANGED <<srpClient, clientParams, controllerVars>>

RoleSetServerInfo(serverInfo) ==
    \E r \in {Client_setServerInfo(srpClient, serverInfo)} :
        /\ srpClient' = IF r.ok THEN r.val ELSE srpClient
        /\ lastCall' = [lastCall EXCEPT !.client =
                           Call("setServerInfo", serverInfo, 0, srpClient,
                                IF r.ok THEN Returned(<<>>, r.val, 0)
                                ELSE Thrown(r.err, srpClient, 0))]
        /\ UNCHANGED <<srpServer, challenge, clientParams, controllerVars>>

RoleGenerate(a) ==
    \E r \in {Client_generatePublicKeyAndProof(srpClient, a)} :
        /\ ~Has(srpClient, "sharedKey")
        /\ srpClient' = r.this
        /\ clientParams' = IF r.ok THEN <<r.val>> ELSE clientParams
        /\ lastCall' = [lastCall EXCEPT !.client =
                           Call("generatePublicKeyAndProof", <<>>, a, srpClient, r)]
        /\ UNCHANGED <<srpServer, challenge, controllerVars>>

RoleFinishLogin(params) ==
    \E r \in {Server_finishLogin(srpServer, params)} :
        /\ srpServer' = r.this
        /\ clientParams' = <<>>
        /\ lastCall' = [lastCall EXCEPT !.server =
                           Call("finishLogin", params, 0, srpServer, r)]
        /\ UNCHANGED <<srpClient, challenge, controllerVars>>

RoleNext ==
    \/ \E password \in Passwords : RoleSetIdentity(<<"a">>, password)
    \/ \E username \in Usernames, b \in 0..MaxSecret : RoleStartLogin(username, b)
    \/ \E serverInfo \in ServerInfos : RoleSetServerInfo(serverInfo)
    \/ \E a \in 0..MaxSecret : RoleGenerate(a)
    \/ \E params \in ClientParamsSent : RoleFinishLogin(params)

SpecSRP == RoleInit /\ [][RoleNext]_vars

\* ------------------------------------------------- index.js: pure parts

\* The registry of groups.  The code holds five 1024-bit moduli; the model
\* holds five 8-bit safe primes in their place, Base64 like the code's, and
\* the code's own generators (11, 17, 5, 5, 5).
primeLiterals ==
    << [n |-> <<"F", "w", "=", "=">>, g |-> <<"C", "w", "=", "=">>],
       [n |-> <<"L", "w", "=", "=">>, g |-> <<"E", "Q", "=", "=">>],
       [n |-> <<"U", "w", "=", "=">>, g |-> <<"B", "Q", "=", "=">>],
       [n |-> <<"a", "w", "=", "=">>, g |-> <<"B", "Q", "=", "=">>],
       [n |-> <<"p", "w", "=", "=">>, g |-> <<"B", "Q", "=", "=">>] >>

primes ==
    [i \in 1..Len(primeLiterals) |->
       [n |-> HexToBigInteger(b64tohex(primeLiterals[i].n)),
        g |-> HexToBigInteger(b64tohex(primeLiterals[i].g))]]

\* str.indexOf(c) for a character c: the 0-based position of its first
\* occurrence, or -1.
IndexOf(str, c) ==
    IF \E i \in 1..Len(str) : str[i] = c
    THEN (CHOOSE i \in 1..Len(str) :
             str[i] = c /\ \A j \in 1..(i - 1) : str[j] # c) - 1
    ELSE -1

\* str.split(c): the pieces of str between the occurrences of c.
RECURSIVE Split(_, _)
Split(str, c) ==
    LET at == IndexOf(str, c)
    IN  IF at = -1 THEN <<str>>
        ELSE <<SubSeq(str, 1, at)>> \o Split(SubSeq(str, at + 2, Len(str)), c)

\* Whether needle occurs in hay (String.prototype.search / includes of a
\* literal).
Contains(hay, needle) ==
    \E i \in 1..(Len(hay) - Len(needle) + 1) :
        SubSeq(hay, i, i + Len(needle) - 1) = needle

\* The property names JavaScript objects treat specially.
ProtoName ==
    <<"_", "_", "p", "r", "o", "t", "o", "_", "_">>
HasOwnPropertyName ==
    <<"h", "a", "s", "O", "w", "n", "P", "r", "o", "p", "e", "r", "t", "y">>

\* ret[name] = value for a string value: on a plain object the name __proto__
\* is the accessor of the prototype, which ignores a string, so that nothing
\* is stored.
AssignString(ret, name, value) ==
    IF name = ProtoName THEN ret ELSE Set(ret, name, value)

\* The fields the segments from position i on assign, in order: a later
\* segment overrides an earlier one of the same name.
RECURSIVE AssignParams(_, _, _)
AssignParams(params, i, ret) ==
    IF i > Len(params) THEN Ok(ret)
    ELSE LET equals == IndexOf(params[i], "=")
         IN  IF equals = -1 THEN Throw("not a valid params string")
             ELSE AssignParams(params, i + 1,
                      AssignString(ret, SubSeq(params[i], 1, equals),
                                   SubSeq(params[i], equals + 2, Len(params[i]))))

splitParamsString(str) == AssignParams(Split(str, ","), 1, <<>>)

Digits == <<"0", "1", "2", "3", "4", "5", "6", "7", "8", "9">>
IsDigit(c) == \E d \in 1..10 : Digits[d] = c
DigitValue(c) == (CHOOSE d \in 1..10 : Digits[d] = c) - 1

RECURSIVE DigitsValue(_, _, _)
DigitsValue(str, i, acc) ==
    IF i > Len(str) \/ ~IsDigit(str[i]) THEN acc
    ELSE DigitsValue(str, i + 1, 10 * acc + DigitValue(str[i]))

\* parseInt(str, 10): leading blanks, an optional sign, then the longest run
\* of digits; NaN when there is no digit.
ParseInt(str) ==
    LET blanks == IF \E i \in 1..Len(str) : str[i] # " "
                  THEN (CHOOSE i \in 1..Len(str) :
                           str[i] # " " /\ \A j \in 1..(i - 1) : str[j] = " ") - 1
                  ELSE Len(str)
        t == SubSeq(str, blanks + 1, Len(str))
        signed == t # <<>> /\ t[1] \in {"-", "+"}
        d == IF signed THEN SubSeq(t, 2, Len(t)) ELSE t
    IN  IF d = <<>> \/ ~IsDigit(d[1]) THEN [nan |-> TRUE, val |-> 0]
        ELSE [nan |-> FALSE,
              val |-> IF signed /\ t[1] = "-" THEN 0 - DigitsValue(d, 1, 0)
                      ELSE DigitsValue(d, 1, 0)]

\* Number to decimal string, for a number >= 0.
RECURSIVE ToDecimal(_)
ToDecimal(n) ==
    IF n < 10 THEN <<Digits[n + 1]>>
    ELSE Append(ToDecimal(n \div 10), Digits[(n % 10) + 1])

\* A header of a response: response.headers.get gives null when it is absent.
NoHeader == [given |-> FALSE, value |-> <<>>]
Header(value) == [given |-> TRUE, value |-> value]

\* decodeServerParamsString(str) for str the X-NI-AUTH-PARAMS header.  A field
\* named hasOwnProperty shadows the method the code calls on params.
decodeServerParamsString(str) ==
    IF ~str.given \/ str.value = <<>> THEN Ok(<<>>)
    ELSE
    With(splitParamsString(str.value), LAMBDA params :
        IF ~params.ok THEN params
        ELSE IF Has(params.val, HasOwnPropertyName) THEN Throw("TypeError")
        ELSE IF \E f \in {<<"N">>, <<"s">>, <<"B">>, <<"s", "s">>} :
                   ~Has(params.val, f)
        THEN Throw("didn't get everything we needed from server")
        ELSE
        With(ParseInt(params.val[<<"N">>]), LAMBDA N :
            IF ~N.nan /\ N.val > Len(primes) THEN Throw("invalid prime index")
            ELSE IF N.nan \/ N.val < 0 \/ N.val >= Len(primes)
            THEN Throw("TypeError")
            ELSE Ok([modulus |-> primes[N.val + 1].n,
                     generator |-> primes[N.val + 1].g,
                     salt |-> Base64Decode(params.val[<<"s">>]),
                     serverPublicKey |->
                         HexToBigInteger(b64tohex(params.val[<<"B">>])),
                     loginToken |-> params.val[<<"s", "s">>]])))

LoggedInAs ==
    <<"L", "o", "g", "g", "e", "d", " ", "i", "n", " ", "a", "s", ":", " ">>

\* str.match(/Logged in as: (.*)/)[1]: what follows the first occurrence of
\* the prefix (no string of the model holds a line break); indexing the null
\* of a failed match is a TypeError.
getUserNameFromLoggedInString(str) ==
    IF ~Contains(str, LoggedInAs) THEN Throw("TypeError")
    ELSE LET at == CHOOSE i \in 1..Len(str) :
                      /\ SubSeq(str, i, i + Len(LoggedInAs) - 1) = LoggedInAs
                      /\ \A j \in 1..(i - 1) :
                            SubSeq(str, j, j + Len(LoggedInAs) - 1) # LoggedInAs
         IN  Ok(SubSeq(str, at + Len(LoggedInAs), Len(str)))

\* An element of a parsed XML document; a text node has no tagName.
Element(tagName, textContent, childNodes) ==
    [tagName |-> tagName, textContent |-> textContent, childNodes |-> childNodes]
TextNode(text) == Element("undefined", text, <<>>)
\* The body of a response that is no XML document.
NoDocument == Element("undefined", <<>>, <<>>)

getText(el) == el.textContent

\* new Permission(xmlNode): the children are read in order, a later child of
\* the same tag overrides an earlier one.
RECURSIVE PermissionFrom(_, _, _)
PermissionFrom(xmlNode, cn, this) ==
    IF cn > Len(xmlNode.childNodes) THEN this
    ELSE LET cnode == xmlNode.childNodes[cn]
         IN  PermissionFrom(xmlNode, cn + 1,
                 IF cnode.tagName = "Name"
                 THEN [this EXCEPT !.name = getText(cnode)]
                 ELSE IF cnode.tagName = "BuiltIn"
                 THEN [this EXCEPT !.builtin = (getText(cnode) # <<>>)]
                 ELSE IF cnode.tagName = "ID"
                 THEN [this EXCEPT !.id = ParseInt(getText(cnode))]
                 ELSE this)

Permission(xmlNode) ==
    PermissionFrom(xmlNode, 1,
        [name |-> <<>>, builtin |-> FALSE, id |-> [nan |-> FALSE, val |-> -1]])

\* The object literal {}: own properties, and whether its prototype is still
\* Object.prototype.
EmptyObject == [own |-> <<>>, plain |-> TRUE]

\* permissions[name] = p: an assignment to __proto__ replaces the prototype
\* of the object instead of creating a property.
AssignProperty(obj, name, p) ==
    IF name = ProtoName THEN [obj EXCEPT !.plain = FALSE]
    ELSE [obj EXCEPT !.own = Set(obj.own, name, p)]

RECURSIVE CollectPermissions(_, _, _)
CollectPermissions(root, cn, permissions) ==
    IF cn > Len(root.childNodes) THEN permissions
    ELSE LET cnode == root.childNodes[cn]
         IN  CollectPermissions(root, cn + 1,
                 IF cnode.tagName = "Permission"
                 THEN With(Permission(cnode), LAMBDA p :
                          AssignProperty(permissions, p.name, p))
                 ELSE permissions)

\* _parsePermissions(xmlData) for xmlData.documentElement = root.
_parsePermissions(root) ==
    IF root.tagName # "Permissions"
    THEN Throw(<<"Unknown element type, got ", root.tagName>>)
    ELSE Ok(CollectPermissions(root, 1, EmptyObject))

\* ------------------------------------------ index.js: the controller

\* The cache, once a permission set is stored.
Defined(obj) == [defined |-> TRUE, own |-> obj.own, plain |-> obj.plain]

\* What a caller of the module's getters sees.
Cache == [user |-> _loggedInUser, perms |-> cachedPermissions]

getUserName == _loggedInUser

\* hasPermission answering true while no permission set is stored.
hasPermission_FailOpen(permName) ==
    IF ~cachedPermissions.defined THEN Ok(TRUE)
    ELSE IF Has(cachedPermissions.own, HasOwnPropertyName) THEN Throw("TypeError")
    ELSE Ok(Has(cachedPermissions.own, permName))

\* hasPermission(permName).  hasOwnProperty is looked up on the cached object
\* itself, so a permission stored under that name is what gets called.
hasPermission(permName) ==
    IF ~cachedPermissions.defined THEN Ok(FALSE)
    ELSE IF Has(cachedPermissions.own, HasOwnPropertyName) THEN Throw("TypeError")
    ELSE Ok(Has(cachedPermissions.own, permName))

\* The literal strings of the requests.
LoginPath ==
    <<"/", "L", "o", "g", "i", "n">>
LoginQuery ==
    <<"/", "L", "o", "g", "i", "n", "?", "u", "s", "e", "r", "n", "a", "m",
      "e", "=">>
PermissionsQuery ==
    <<"/", "L", "V", "W", "S", "A", "u", "t", "h", "S", "v", "c", "/", "G",
      "e", "t", "A", "g", "g", "r", "e", "g", "a", "t", "e", "U", "s", "e",
      "r", "P", "e", "r", "m", "i", "s", "s", "i", "o", "n", "s", "?", "u",
      "s", "e", "r", "n", "a", "m", "e", "=">>
LogoutPath ==
    <<"/", "L", "o", "g", "o", "u", "t">>
AcceptName ==
    <<"A", "c", "c", "e", "p", "t">>
TextXml ==
    <<"t", "e", "x", "t", "/", "x", "m", "l">>
ContentTypeName ==
    <<"C", "o", "n", "t", "e", "n", "t", "-", "T", "y", "p", "e">>
FormUrlEncoded ==
    <<"a", "p", "p", "l", "i", "c", "a", "t", "i", "o", "n", "/", "x", "-",
      "w", "w", "w", "-", "f", "o", "r", "m", "-", "u", "r", "l", "e", "n",
      "c", "o", "d", "e", "d">>
BodyA == <<"A", "=">>
BodyM == <<"&", "M", "=">>
BodySs == <<"&", "s", "s", "=">>

\* A call of fetch.
Request(method, url, headers, body) ==
    [method |-> method, url |-> url, credentials |-> "same-origin",
     headers |-> headers, body |-> body]

\* '...' + obj.f: a field the object lacks is appended as "undefined".
StringOf(obj, f) ==
    IF Has(obj, f) THEN obj[f]
    ELSE <<"u", "n", "d", "e", "f", "i", "n", "e", "d">>

\* username || ''
OrEmptyString(username) == IF username = <<>> THEN <<>> ELSE username

InitialLoginRequest(username) ==
    Request("GET", LoginQuery \o OrEmptyString(username), <<>>, <<>>)
PermissionsRequest(username) ==
    Request("GET", PermissionsQuery \o OrEmptyString(username),
            <<<<AcceptName, TextXml>>>>, <<>>)
ProofRequest(data) ==
    Request("POST", LoginPath, <<<<ContentTypeName, FormUrlEncoded>>>>, data)
SessionRequest == Request("GET", LoginPath, <<>>, <<>>)
LogoutRequest == Request("GET", LogoutPath, <<>>, <<>>)


\* An operation in flight: its arguments, where it waits (pc), which follow-up
\* request it has issued, the cache when it was called, whether it has run
\* without a step of another operation in between, and how many times it has
\* called fetch.
Frame(op, username, password, cookie, pc) ==
    [op |-> op, username |-> username, password |-> password,
     cookie |-> cookie, pc |-> pc, followup |-> "none", before |-> Cache,
     alone |-> (pending = <<>>), requests |-> 0]

\* How a step leaves the promise of its operation.
Unsettled == [settled |-> FALSE, resolved |-> FALSE, value |-> "", error |-> <<>>]
Resolved(value) ==
    [settled |-> TRUE, resolved |-> TRUE, value |-> value, error |-> <<>>]
Rejected(error) ==
    [settled |-> TRUE, resolved |-> FALSE, value |-> "", error |-> error]

\* A step of operation f: where it stood (pc: "call" for the call itself),
\* the response it handled (got) and the request it issued (sent), each a
\* sequence of at most one, and the promise after it.
StepOf(f, pc, got, sent, outcome) ==
    [op |-> f.op, username |-> f.username, password |-> f.password,
     cookie |-> f.cookie, pc |-> pc, followup |-> f.followup,
     before |-> f.before,
     alone |-> f.alone, got |-> got, sent |-> sent,
     settled |-> outcome.settled, resolved |-> outcome.resolved,
     value |-> outcome.value, error |-> outcome.error, permName |-> <<>>,
     requests |-> f.requests]

Disturbed == [j \in 1..Len(pending) |-> [pending[j] EXCEPT !.alone = FALSE]]
RemoveAt(seq, i) == SubSeq(seq, 1, i - 1) \o SubSeq(seq, i + 1, Len(seq))

\* A call that issues its first request and waits.
Called(f, request) ==
    /\ calls < MaxCalls
    /\ calls' = calls + 1
    /\ pending' = Append(Disturbed, [f EXCEPT !.requests = 1])
    /\ lastStep' = StepOf([f EXCEPT !.requests = 1], "call", <<>>, <<request>>,
                          Unsettled)
\* A call that settles without a request.
Returns(f, outcome) ==
    /\ calls < MaxCalls
    /\ calls' = calls + 1
    /\ pending' = Disturbed
    /\ lastStep' = StepOf(f, "call", <<>>, <<>>, outcome)
\* The operation at position i handles a response and goes on as frame f.
Continue(i, f, got, sent) ==
    /\ UNCHANGED calls
    /\ pending' = [Disturbed EXCEPT ![i] = [f EXCEPT !.requests = @ + Len(sent)]]
    /\ lastStep' = StepOf([f EXCEPT !.requests = @ + Len(sent)], pending[i].pc,
                          got, sent, Unsettled)
\* The operation at position i handles a response and settles.
Settle(i, got, outcome) ==
    /\ UNCHANGED calls
    /\ pending' = RemoveAt(Disturbed, i)
    /\ lastStep' = StepOf(pending[i], pending[i].pc, got, <<>>, outcome)

Init ==
    /\ srpClient = Client
    /\ srpServer = Server(<<>>)
    /\ challenge = <<>>
    /\ clientParams = <<>>
    /\ lastCall = [client |-> NoCall, server |-> NoCall]
    /\ _loggedInUser = <<>>
    /\ cachedPermissions = Undefined
    /\ pending = <<>>
    /\ lastStep = NoStep
    /\ calls = 0

\* login with the password in the query of its first request.
login_PasswordInQuery(username, password) ==
    /\ srpClient' = Client_setIdentity(srpClient,
                        [username |-> username, password |-> password])
    /\ Called(Frame("login", username, password, FALSE, "initial"),
              Request("GET", LoginQuery \o username \o <<"&", "p", "w", "=">>
                             \o password, <<>>, <<>>))
    /\ UNCHANGED <<_loggedInUser, cachedPermissions, serverVars>>

\* login(username, password) up to its first fetch.
login(username, password) ==
    /\ srpClient' = Client_setIdentity(srpClient,
                        [username |-> username, password |-> password])
    /\ Called(Frame("login", username, password, FALSE, "initial"),
              InitialLoginRequest(username))
    /\ UNCHANGED <<_loggedInUser, cachedPermissions, serverVars>>

\* The first handler going on to the permissions whoever the session names.
FirstHandler_AnyUser(username, response, a) ==
    With(getUserNameFromLoggedInString(response.text), LAMBDA str :
        [ok |-> TRUE, err |-> <<>>,
         user |-> IF str.ok THEN str.val ELSE _loggedInUser,
         client |-> srpClient, followup |-> "permissions",
         request |-> PermissionsRequest(username)])

\* The first response handler of login, for a the number SRP.a() draws: the
\* request it goes on with, or the error it throws, and the logged-in user
\* and the SRP client it leaves.
FirstHandler(username, response, a) ==
    LET throw(err, user, client) ==
            [ok |-> FALSE, err |-> err, user |-> user, client |-> client,
             followup |-> "none", request |-> SessionRequest]
        fetch(followup, request, user, client) ==
            [ok |-> TRUE, err |-> <<>>, user |-> user, client |-> client,
             followup |-> followup, request |-> request]
    IN  IF response.status = 200
        THEN With(getUserNameFromLoggedInString(response.text), LAMBDA str :
             IF ~str.ok THEN throw(<<str.err>>, _loggedInUser, srpClient)
             ELSE IF str.val = username
             THEN fetch("permissions", PermissionsRequest(username), str.val,
                        srpClient)
             ELSE throw(<<"Already logged in as ", str.val, ", log out first!">>,
                        str.val, srpClient))
        ELSE IF response.status = 403
        THEN With(decodeServerParamsString(response.header), LAMBDA serverInfo :
             IF ~serverInfo.ok
             THEN throw(<<serverInfo.err>>, _loggedInUser, srpClient)
             ELSE
             With(Client_setServerInfo(srpClient, serverInfo.val), LAMBDA info :
             IF ~info.ok THEN throw(<<info.err>>, _loggedInUser, srpClient)
             ELSE
             With(Client_generatePublicKeyAndProof(info.val, a), LAMBDA gen :
             IF ~gen.ok THEN throw(<<gen.err>>, _loggedInUser, gen.this)
             ELSE
             With(bigIntToBase64(gen.val.clientPublicKey, PadBytes), LAMBDA A64 :
             IF ~A64.ok THEN throw(<<A64.err>>, _loggedInUser, gen.this)
             ELSE fetch("proof",
                        ProofRequest(
                            BodyA \o makeUrlBase64(A64.val)
                            \o BodyM
                            \o makeUrlBase64(hexStringToBase64(gen.val.clientProof))
                            \o BodySs \o StringOf(serverInfo.val, "loginToken")),
                        _loggedInUser, gen.this)))))
        ELSE throw(<<"Unknown/unhandled status code from NIAuth (",
                     ToDecimal(response.status), ")">>, _loggedInUser, srpClient)

\* The initial response of the login at position i arrives.
LoginInitialResponse(i, response, a) ==
    \E h \in {FirstHandler(pending[i].username, response, a)} :
        /\ pending[i].op = "login" /\ pending[i].pc = "initial"
        /\ _loggedInUser' = h.user
        /\ srpClient' = h.client
        /\ IF h.ok
           THEN Continue(i, [pending[i] EXCEPT !.pc = "followup",
                                               !.followup = h.followup],
                         <<response>>, <<h.request>>)
           ELSE Settle(i, <<response>>, Rejected(h.err))
        /\ UNCHANGED <<cachedPermissions, serverVars>>

\* The second handler asking for a new challenge when the proof is refused.
LoginFollowup_Retrying(i, response) ==
    LET f == pending[i]
    IN  /\ f.op = "login" /\ f.pc = "followup"
        /\ IF response.status = 200
           THEN /\ _loggedInUser' = f.username
                /\ Continue(i, [f EXCEPT !.pc = "text"], <<response>>, <<>>)
           ELSE IF response.status = 403
           THEN /\ Continue(i, [f EXCEPT !.pc = "initial"], <<response>>,
                            <<InitialLoginRequest(f.username)>>)
                /\ UNCHANGED _loggedInUser
           ELSE /\ Settle(i, <<response>>, Resolved("undefined"))
                /\ UNCHANGED _loggedInUser
        /\ UNCHANGED <<cachedPermissions, srpClient, serverVars>>

\* The second handler treating every status but 200 alike.
LoginFollowup_OneError(i, response) ==
    LET f == pending[i]
    IN  /\ f.op = "login" /\ f.pc = "followup"
        /\ IF response.status = 200
           THEN /\ _loggedInUser' = f.username
                /\ Continue(i, [f EXCEPT !.pc = "text"], <<response>>, <<>>)
           ELSE /\ Settle(i, <<response>>,
                          Rejected(<<"Unknown/unhandled status code from NIAuth (",
                                     ToDecimal(response.status), ")">>))
                /\ UNCHANGED _loggedInUser
        /\ UNCHANGED <<cachedPermissions, srpClient, serverVars>>

\* The response to the follow-up request arrives: the second handler up to
\* response.text().  A status that is neither 200 nor 403 falls through, and
\* the promise resolves with undefined.
LoginFollowupResponse(i, response) ==
    LET f == pending[i]
    IN  /\ f.op = "login" /\ f.pc = "followup"
        /\ IF response.status = 200
           THEN /\ _loggedInUser' = f.username
                /\ Continue(i, [f EXCEPT !.pc = "text"], <<response>>, <<>>)
           ELSE IF response.status = 403
           THEN /\ Settle(i, <<response>>, Rejected(<<"Login failed!">>))
                /\ UNCHANGED _loggedInUser
           ELSE /\ Settle(i, <<response>>, Resolved("undefined"))
                /\ UNCHANGED _loggedInUser
        /\ UNCHANGED <<cachedPermissions, srpClient, serverVars>>

\* The body of the follow-up response has been read: it is parsed and stored.
LoginPermissionText(i, response) ==
    \E newPermissions \in {_parsePermissions(response.xml)} :
        /\ pending[i].op = "login" /\ pending[i].pc = "text"
        /\ IF newPermissions.ok
           THEN /\ cachedPermissions' = Defined(newPermissions.val)
                /\ Settle(i, <<response>>, Resolved("true"))
           ELSE /\ Settle(i, <<response>>, Rejected(newPermissions.err))
                /\ UNCHANGED cachedPermissions
        /\ UNCHANGED <<_loggedInUser, srpClient, serverVars>>

\* logout(), for hasSessionCookie() = cookie.
logout(cookie) ==
    LET f == Frame("logout", <<>>, <<>>, cookie, "logout")
    IN  /\ IF ~cookie
           THEN /\ _loggedInUser' = <<>>
                /\ Returns(f, Resolved("true"))
           ELSE /\ Called(f, LogoutRequest)
                /\ UNCHANGED _loggedInUser
        /\ UNCHANGED <<cachedPermissions, srpClient, serverVars>>

\* The logout handler clearing the user name whatever the status.
LogoutResponse_AlwaysClears(i, response) ==
    /\ pending[i].op = "logout"
    /\ _loggedInUser' = <<>>
    /\ Settle(i, <<response>>,
              IF response.status = 200 THEN Resolved("true") ELSE Resolved("false"))
    /\ UNCHANGED <<cachedPermissions, srpClient, serverVars>>

LogoutResponse(i, response) ==
    /\ pending[i].op = "logout"
    /\ IF response.status = 200
       THEN /\ _loggedInUser' = <<>>
            /\ Settle(i, <<response>>, Resolved("true"))
       ELSE /\ Settle(i, <<response>>, Resolved("false"))
            /\ UNCHANGED _loggedInUser
    /\ UNCHANGED <<cachedPermissions, srpClient, serverVars>>

\* updateFromSession(), for hasSessionCookie() = cookie.
updateFromSession(cookie) ==
    LET f == Frame("updateFromSession", <<>>, <<>>, cookie, "session")
    IN  /\ IF ~cookie THEN Returns(f, Resolved("false"))
           ELSE Called(f, SessionRequest)
        /\ UNCHANGED <<_loggedInUser, cachedPermissions, srpClient, serverVars>>

\* The session handler rejecting when the session is not confirmed.
SessionResponse_RejectsExpired(i, response) ==
    /\ pending[i].op = "updateFromSession"
    /\ IF response.status = 200
       THEN \E str \in {getUserNameFromLoggedInString(response.text)} :
                IF str.ok
                THEN /\ _loggedInUser' = str.val
                     /\ Settle(i, <<response>>, Resolved("true"))
                ELSE /\ Settle(i, <<response>>, Rejected(<<str.err>>))
                     /\ UNCHANGED _loggedInUser
       ELSE /\ Settle(i, <<response>>, Rejected(<<"session expired">>))
            /\ UNCHANGED _loggedInUser
    /\ UNCHANGED <<cachedPermissions, srpClient, serverVars>>

SessionResponse(i, response) ==
    /\ pending[i].op = "updateFromSession"
    /\ IF response.status = 200
       THEN \E str \in {getUserNameFromLoggedInString(response.text)} :
                IF str.ok
                THEN /\ _loggedInUser' = str.val
                     /\ Settle(i, <<response>>, Resolved("true"))
                ELSE /\ Settle(i, <<response>>, Rejected(<<str.err>>))
                     /\ UNCHANGED _loggedInUser
       ELSE /\ Settle(i, <<response>>, Resolved("false"))
            /\ UNCHANGED _loggedInUser
    /\ UNCHANGED <<cachedPermissions, srpClient, serverVars>>

\* A call of hasPermission(permName): it returns at once, and the step records
\* the name asked for and what the call returned (value) or threw (error).
hasPermissionCalled(permName) ==
    \E r \in {hasPermission(permName)} :
        /\ lastStep' =
               [StepOf(Frame("hasPermission", <<>>, <<>>, FALSE, "call"), "call",
                       <<>>, <<>>,
                       IF r.ok THEN Resolved(IF r.val THEN "true" ELSE "false")
                       ELSE Rejected(<<r.err>>))
                   EXCEPT !.permName = permName]
        /\ UNCHANGED <<_loggedInUser, cachedPermissions, pending, calls,
                       srpClient, serverVars>>

\* ------------------------------------------- the NIAuth service and callers

\* The header "N=..,s=..,B=..,ss=.." the service sends with a challenge.
ParamsString(N, s, B, ss) ==
    <<"N", "=">> \o N \o <<",", "s", "=">> \o Base64Encode(s)
        \o <<",", "B", "=">> \o bigIntToBase64(B, PadBytes).val
        \o <<",", "s", "s", "=">> \o ss

TokenOne == <<"t", "1">>
TokenTwo == <<"t", "2">>

\* Challenge headers that lack one of the fields N, s, B, ss, or hold a
\* segment without '='.
IncompleteHeaders ==
    {Header(<<"s", "=", "A", "Q", "=", "=", ",", "B", "=", "A", "A", "I", "=", ",", "s", "s", "=", "t", "1">>),
     Header(<<"N", "=", "0", ",", "B", "=", "A", "A", "I", "=", ",", "s", "s", "=", "t", "1">>),
     Header(<<"N", "=", "0", ",", "s", "=", "A", "Q", "=", "=", ",", "s", "s", "=", "t", "1">>),
     Header(<<"N", "=", "0", ",", "s", "=", "A", "Q", "=", "=", ",", "B", "=", "A", "A", "I", "=">>),
     Header(<<"N", "=", "0", ",", "s", "s">>)}

\* Challenge headers: two that decode (groups 0 and 1), one whose B is the
\* modulus of its group, four whose N names no group, those that lack a
\* field, and no header at all.
ChallengeHeaders ==
    {Header(ParamsString(<<"0">>, <<1>>, 2, TokenOne)),
     Header(ParamsString(<<"1">>, <<2, 255>>, 3, TokenTwo)),
     Header(ParamsString(<<"0">>, <<1>>, primes[1].n, TokenOne)),
     Header(ParamsString(<<"5">>, <<1>>, 2, TokenOne)),
     Header(ParamsString(<<"6">>, <<1>>, 2, TokenOne)),
     Header(ParamsString(<<"-", "1">>, <<1>>, 2, TokenOne)),
     Header(ParamsString(<<"x">>, <<1>>, 2, TokenOne)),
     NoHeader} \cup IncompleteHeaders

\* The users that log in, each with the password they type.
Credentials ==
    {[username |-> <<"a">>, password |-> <<"p", "!">>],
     [username |-> <<"b">>, password |-> <<"q", "!">>]}

\* Bodies of a 200 response to GET /Login.
LoggedInBodies ==
    {LoggedInAs \o <<"a">>, LoggedInAs \o <<"b">>, <<"o", "k">>}

Leaf(tagName, text) == Element(tagName, text, <<>>)
PermissionElement(name) ==
    Element("Permission", <<>>,
            <<Leaf("Name", name), Leaf("BuiltIn", <<"1">>), Leaf("ID", <<"7">>)>>)
Permissions(children) == Element("Permissions", <<>>, children)

\* Permission documents: none, one and two permissions (between text and
\* other elements), permissions named like properties of Object.prototype,
\* and a document with another root.
PermissionDocs ==
    {Permissions(<<>>),
     Permissions(<<PermissionElement(<<"r">>)>>),
     Permissions(<<TextNode(<<" ">>), PermissionElement(<<"r">>),
                   Leaf("Group", <<"g">>), PermissionElement(<<"w">>)>>),
     Permissions(<<PermissionElement(ProtoName)>>),
     Permissions(<<PermissionElement(HasOwnPropertyName)>>),
     Element("Error", <<>>, <<>>)}

\* Statuses the service answers with besides 200 and 403.
\* The names callers ask hasPermission for: one a document may grant, one no
\* document grants, and the name of the method hasPermission itself calls.
PermissionsAsked == {<<"r">>, <<"x">>, HasOwnPropertyName}

OtherStatuses == {500}

InitialResponses ==
    {Response(200, NoHeader, body, NoDocument) : body \in LoggedInBodies}
    \cup {Response(403, h, <<>>, NoDocument) : h \in ChallengeHeaders}
    \cup {Response(st, NoHeader, <<>>, NoDocument) : st \in OtherStatuses}

\* Status and headers of the answer to a follow-up request; its body.
FollowupResponses ==
    {Response(st, NoHeader, <<>>, NoDocument) : st \in {200, 403} \cup OtherStatuses}

PermissionBodies == {Response(200, NoHeader, <<>>, doc) : doc \in PermissionDocs}

SessionResponses ==
    {Response(200, NoHeader, body, NoDocument) : body \in LoggedInBodies}
    \cup {Response(st, NoHeader, <<>>, NoDocument) : st \in {403} \cup OtherStatuses}

LogoutResponses ==
    {Response(st, NoHeader, <<>>, NoDocument) : st \in {200, 403} \cup OtherStatuses}

Next ==
    \/ \E c \in Credentials : login(c.username, c.password)
    \/ \E i \in 1..Len(pending), response \in InitialResponses, a \in 0..MaxSecret :
          LoginInitialResponse(i, response, a)
    \/ \E i \in 1..Len(pending), response \in FollowupResponses :
          LoginFollowupResponse(i, response)
    \/ \E i \in 1..Len(pending), response \in PermissionBodies :
          LoginPermissionText(i, response)
    \/ \E cookie \in BOOLEAN : logout(cookie)
    \/ \E i \in 1..Len(pending), response \in LogoutResponses :
          LogoutResponse(i, response)
    \/ \E cookie \in BOOLEAN : updateFromSession(cookie)
    \/ \E i \in 1..Len(pending), response \in SessionResponses :
          SessionResponse(i, response)
    \/ \E permName \in PermissionsAsked : hasPermissionCalled(permName)

Spec == Init /\ [][Next]_vars

\* ------------------------------------------- the utilities on their own

\* The record of a call of a utility: its arguments and what it returned (val)
\* or threw (err).
Applied(op, arg, r) ==
    [op |-> op, ok |-> r.ok, err |-> IF r.ok THEN "" ELSE r.err,
     val |-> IF r.ok THEN r.val ELSE <<>>, draws |-> 0, arg |-> arg, rnd |-> 0,
     changed |-> FALSE]

\* A utility is called and returns or throws; nothing else changes.  The
\* utilities keep no state, so a run holds one call.
Apply(op, arg, r) ==
    /\ lastCall.client.op = "none"
    /\ lastCall' = [lastCall EXCEPT !.client = Applied(op, arg, r)]
    /\ UNCHANGED <<srpClient, srpServer, challenge, clientParams, controllerVars>>

\* new BigInteger(Utils.byteArrayToHashString(bytes), 16)
bytesToInt(bytes) == HexToBigInteger(byteArrayToHashString(bytes))

\* The numbers that are encoded: all up to MaxNatural, and those around the
\* widths of two and three bytes and their sign bits.
Naturals ==
    (0..MaxNatural)
        \cup {32767, 32768, 65535, 65536, 8388607, 8388608, 16777215, 16777216}

\* All sequences over alphabet of length at most n.
RECURSIVE SeqsUpTo(_, _)
SeqsUpTo(alphabet, n) ==
    IF n = 0 THEN {<<>>}
    ELSE SeqsUpTo(alphabet, n - 1)
         \cup {Append(s, c) : s \in {t \in SeqsUpTo(alphabet, n - 1) : Len(t) = n - 1},
                              c \in alphabet}

\* Hex strings, as xorHashStrings gets them.
HexStrings == SeqsUpTo({0, 10}, MaxHexLen)

\* The segments of parameter strings: with one '=', with two, with an empty
\* value, with an empty key, without '=', empty, and with the key __proto__.
Segments ==
    {<<"a", "=", "1">>,
     <<"a", "=", "2", "=", "3">>,
     <<"c", "=">>,
     <<"=", "v">>,
     <<"b">>,
     <<>>,
     <<"_", "_", "p", "r", "o", "t", "o", "_", "_", "=", "x">>}

RECURSIVE JoinedSegments(_)
JoinedSegments(n) ==
    IF n = 1 THEN Segments
    ELSE JoinedSegments(n - 1)
         \cup {s \o <<",">> \o seg : s \in JoinedSegments(n - 1), seg \in Segments}

ParamStrings == JoinedSegments(MaxSegments)

\* Base64 texts, regular and URL-safe.
Base64Texts == SeqsUpTo({"+", "/", "=", "A", "-", "_"}, MaxUrlLen)

UtilNext ==
    \/ \E bi \in Naturals, byteCount \in 0..MaxWidth :
          Apply("bigIntegerToBytes", <<bi, byteCount>>,
                bigIntegerToBytes(bi, byteCount))
    \/ \E bi \in Naturals, byteCount \in 0..MaxWidth :
          Apply("bytesToInt", <<bi, byteCount>>,
                With(bigIntegerToBytes(bi, byteCount), LAMBDA bytes :
                    IF bytes.ok THEN Ok(bytesToInt(bytes.val)) ELSE bytes))
    \/ \E a \in HexStrings, b \in HexStrings :
          Apply("xorHashStrings", <<a, b>>, xorHashStrings(a, b))
    \/ \E str \in ParamStrings :
          Apply("splitParamsString", str, splitParamsString(str))
    \/ \E str \in Base64Texts :
          Apply("makeUrlBase64", str, Ok(makeUrlBase64(str)))

SpecUtils == Init /\ [][UtilNext]_vars

\* ------------------------------------------------------------- claims

ClientCall == lastCall.client
ServerCall == lastCall.server

\* The client's last call was generatePublicKeyAndProof on complete server
\* info.
GenerateCalled ==
    /\ ClientCall.op = "generatePublicKeyAndProof"
    /\ \A f \in {"modulus", "generator", "salt", "serverPublicKey"} :
          Has(srpClient, f)

\* The public key that call computed from the number it drew.
GeneratedA == SRP_A(srpClient.modulus, srpClient.generator, ClientCall.rnd)

\* The handshake ran startLogin -> setServerInfo -> generatePublicKeyAndProof
\* -> finishLogin to the end: the client holds the server's challenge, the
\* server was handed the client's public key, and the server's verifier is
\* g^x mod N for the x of the client's salt, username and password.
HonestHandshake ==
    /\ GenerateCalled /\ ClientCall.ok
    /\ ServerCall.op = "finishLogin" /\ ServerCall.ok
    /\ ServerCall.arg.clientPublicKey = ClientCall.val.clientPublicKey
    /\ srpClient.modulus = srpServer.modulus
    /\ srpClient.generator = srpServer.generator
    /\ srpClient.salt = srpServer.salt
    /\ srpClient.serverPublicKey = srpServer.serverPublicKey
    /\ srpServer.verifier =
          SRP_v(srpClient.modulus, srpClient.generator,
                SRP_x(srpClient.salt, OrEmpty(srpClient, "username"),
                      OrEmpty(srpClient, "password")))

\* C1: key agreement. After an honest handshake with the right credentials
\* the client's sharedKey equals the server's sharedKey.
C1_KeyAgreement == HonestHandshake => srpClient.sharedKey = srpServer.sharedKey

C1_Witness ==
    /\ HonestHandshake
    /\ srpClient.password = <<"p">>
    /\ srpClient.sharedKey = srpServer.sharedKey

\* The checks generatePublicKeyAndProof makes, on the values of the call.
BModNZero == srpClient.serverPublicKey % srpClient.modulus = 0
UZero ==
    LET u == SRP_u(GeneratedA, srpClient.serverPublicKey) IN u.ok /\ u.val = 0
KZero ==
    LET k == SRP_k(srpClient.modulus, srpClient.generator) IN k.ok /\ k.val = 0
BFits == bigIntegerToBytes(srpClient.serverPublicKey, PadBytes).ok

\* The call returned nothing and left the client as it was (no sharedKey).
GenerateAborted ==
    /\ ~ClientCall.ok
    /\ ClientCall.val = <<>>
    /\ ~ClientCall.changed
    /\ ~Has(srpClient, "sharedKey")

\* C3 as stated: whenever B mod N = 0, or u(A, B) = 0, or k(N, g) = 0,
\* generatePublicKeyAndProof aborts with 'precondition fail', returns nothing,
\* stores no sharedKey, and for B mod N = 0 draws no ephemeral.
C3_AsStated ==
    (GenerateCalled /\ (BModNZero \/ UZero \/ KZero))
        => /\ GenerateAborted
           /\ ClientCall.err = "precondition fail"
           /\ (BModNZero => ClientCall.draws = 0)

\* C3 amended: the same, except that with k(N, g) = 0 and a server public key
\* too wide to pad the abort is the truncation error raised while u is
\* computed, before k is looked at.
C3_PrecheckAborts ==
    (GenerateCalled /\ (BModNZero \/ UZero \/ KZero))
        => /\ GenerateAborted
           /\ (BModNZero \/ UZero \/ BFits => ClientCall.err = "precondition fail")
           /\ (~(BModNZero \/ UZero \/ BFits)
                 => ClientCall.err = "attmpted to truncate")
           /\ (BModNZero => ClientCall.draws = 0)

\* The scrambler was zero: the call drew its ephemeral and then aborted.
C3_Witness ==
    /\ GenerateCalled /\ UZero /\ ~BModNZero /\ ~KZero
    /\ ClientCall.err = "precondition fail"
    /\ ClientCall.draws = 1

\* C4: whenever u(A, B) = 0 for the client-supplied A and the stored B,
\* finishLogin aborts with 'precondition fail', returns no serverProof and
\* stores no sharedKey.
FinishCalled == ServerCall.op = "finishLogin" /\ Has(srpServer, "serverPublicKey")

FinishUZero ==
    LET u == SRP_u(ServerCall.arg.clientPublicKey, srpServer.serverPublicKey)
    IN  u.ok /\ u.val = 0

C4_FinishAbortsOnZeroU ==
    (FinishCalled /\ FinishUZero)
        => /\ ~ServerCall.ok
           /\ ServerCall.err = "precondition fail"
           /\ ServerCall.val = <<>>
           /\ ~ServerCall.changed
           /\ ~Has(srpServer, "sharedKey")

C4_Witness == FinishCalled /\ FinishUZero /\ ~ServerCall.ok

\* A login whose promise the latest step settled.
LoginSettled == lastStep.op = "login" /\ lastStep.settled
\* The response the latest step handled.
GotStatus == IF lastStep.got = <<>> THEN 0 ELSE lastStep.got[1].status

\* The texts of a request: its URL, its body, its header names and values.
RequestTexts(request) ==
    {request.url, request.body}
        \cup {request.headers[h][1] : h \in 1..Len(request.headers)}
        \cup {request.headers[h][2] : h \in 1..Len(request.headers)}

\* The proof request the client builds from the challenge in header, its
\* ephemeral a and the proof it computes with its own fields.
ProofRequestFrom(header, a) ==
    With(decodeServerParamsString(header).val, LAMBDA info :
    With(SRP_A(info.modulus, info.generator, a), LAMBDA A :
        ProofRequest(
            BodyA \o makeUrlBase64(bigIntToBase64(A, PadBytes).val)
            \o BodyM
            \o makeUrlBase64(hexStringToBase64(
                   SRP_Mc(info.modulus, info.generator,
                          OrEmpty(srpClient, "username"), info.salt, A,
                          info.serverPublicKey, srpClient.sharedKey).val))
            \o BodySs \o info.loginToken)))

\* C2: the password is never transmitted.  No request a step issues holds a
\* password that is passed to login, in its URL, its headers or its body; a
\* request is one of the fixed requests, a request parameterised by the
\* username alone, or the proof request built from A, M and the login token.
C2_PasswordNeverSent ==
    \A r \in 1..Len(lastStep.sent) :
        LET request == lastStep.sent[r]
        IN  /\ \A c \in Credentials, t \in RequestTexts(request) :
                  ~Contains(t, c.password)
            /\ \/ request \in {SessionRequest, LogoutRequest,
                               InitialLoginRequest(lastStep.username),
                               PermissionsRequest(lastStep.username)}
               \/ \E a \in 0..MaxSecret :
                     request = ProofRequestFrom(lastStep.got[1].header, a)

C2_Witness ==
    /\ lastStep.op = "login" /\ lastStep.password = <<"p", "!">>
    /\ Len(lastStep.sent) = 1 /\ lastStep.sent[1].method = "POST"

\* The names the hasPermission checks below ask for.
PermissionNames == {<<"r">>, <<"w">>, <<"x">>, ProtoName, HasOwnPropertyName}

\* The names of the permissions of a document.
DocumentNames(root) ==
    {Permission(root.childNodes[cn]).name :
        cn \in {c \in 1..Len(root.childNodes) :
                   root.childNodes[c].tagName = "Permission"}}

\* A login that ran alone through challenge and proof and whose proof request
\* was answered 200 with a permission document.
ProofAccepted ==
    /\ LoginSettled /\ lastStep.alone
    /\ lastStep.followup = "proof" /\ lastStep.pc = "text"
    /\ lastStep.got[1].xml.tagName = "Permissions"

\* C5: such a login resolves true, and afterwards getUserName() is its
\* username and hasPermission(p) is true exactly for the names p of the
\* document.
C5_LoginSucceeds ==
    ProofAccepted
        => /\ lastStep.resolved /\ lastStep.value = "true"
           /\ getUserName = lastStep.username
           /\ \A p \in PermissionNames :
                 hasPermission(p) = Ok(p \in DocumentNames(lastStep.got[1].xml))

\* C6: a login that rejects leaves the cache as it was when it was called.
C6_FailedLoginKeepsCache ==
    (LoginSettled /\ ~lastStep.resolved /\ lastStep.alone)
        => Cache = lastStep.before

\* C7: a login that gets a response with a status other than 200 and 403, to
\* its initial or to its follow-up request, rejects with the unknown-status
\* error.
UnknownStatusError(error) ==
    Len(error) = 3 /\ error[1] = "Unknown/unhandled status code from NIAuth ("

C7_UnknownStatusRejects ==
    (lastStep.op = "login" /\ lastStep.got # <<>> /\ GotStatus \notin {200, 403})
        => /\ lastStep.settled /\ ~lastStep.resolved
           /\ UnknownStatusError(lastStep.error)

\* C8: a login whose proof request is answered 403 rejects with 'Login
\* failed!', and a login rejects with that error only for a follow-up request
\* answered 403: not for another status, and not for a failed precheck, which
\* rejects before any follow-up request.
C8_AuthenticationFailed ==
    /\ (lastStep.op = "login" /\ lastStep.pc = "followup"
        /\ lastStep.followup = "proof" /\ GotStatus = 403)
          => (lastStep.settled /\ ~lastStep.resolved
              /\ lastStep.error = <<"Login failed!">>)
    /\ (LoginSettled /\ ~lastStep.resolved /\ Len(lastStep.error) = 1
        /\ lastStep.error[1] = "Login failed!")
          => (lastStep.pc = "followup" /\ GotStatus = 403)

C8_Witness ==
    /\ LoginSettled /\ lastStep.pc = "followup" /\ lastStep.followup = "proof"
    /\ GotStatus = 403 /\ lastStep.error = <<"Login failed!">>

\* The initial response of the latest step: 200 with a body naming a user.
InitialNames ==
    /\ lastStep.op = "login" /\ lastStep.pc = "initial" /\ GotStatus = 200
    /\ getUserNameFromLoggedInString(lastStep.got[1].text).ok
NamedUser == getUserNameFromLoggedInString(lastStep.got[1].text).val

\* The first half of C9: when the body names another user, login rejects with
\* 'Already logged in as ...' and issues no further request.
OtherUserRejected ==
    (InitialNames /\ NamedUser # lastStep.username)
        => /\ lastStep.settled /\ ~lastStep.resolved
           /\ lastStep.error[1] = "Already logged in as "
           /\ lastStep.sent = <<>>

C10_LogoutClearsCache ==
    (lastStep.op = "logout" /\ lastStep.settled /\ lastStep.resolved
     /\ lastStep.value = "true")
        => /\ getUserName = <<>>
           /\ \A p \in PermissionNames : hasPermission(p) = Ok(FALSE)

\* The latest step handled the answer to a logout request, and its status is
\* not 200.
LogoutRefused ==
    lastStep.op = "logout" /\ lastStep.got # <<>> /\ lastStep.got[1].status # 200

\* C11: a step that handles the answer to a logout request with a status
\* other than 200 resolves the promise with false and leaves the logged-in
\* user name and the cached permissions as they were.
C11_LogoutFailureKeepsCache ==
    [][LogoutRefused' =>
          /\ lastStep'.settled /\ lastStep'.resolved /\ lastStep'.value = "false"
          /\ _loggedInUser' = _loggedInUser
          /\ cachedPermissions' = cachedPermissions]_vars

C11_Witness ==
    /\ LogoutRefused /\ lastStep.cookie
    /\ _loggedInUser # <<>> /\ cachedPermissions.defined

\* The latest step is a call of hasPermission.
HasPermissionReturned == lastStep.op = "hasPermission"

\* C12: a call of hasPermission changes neither the logged-in user name nor
\* the cached permissions, and while no permission set is stored it returns
\* false, whatever the name.
C12_HasPermissionPureRead ==
    [][HasPermissionReturned' =>
          /\ _loggedInUser' = _loggedInUser
          /\ cachedPermissions' = cachedPermissions
          /\ ~cachedPermissions.defined =>
                lastStep'.resolved /\ lastStep'.value = "false"]_vars

C12_Witness ==
    /\ HasPermissionReturned /\ ~cachedPermissions.defined
    /\ lastStep.permName = HasOwnPropertyName /\ _loggedInUser # <<>>
    /\ lastStep.value = "false"

\* The latest step belongs to updateFromSession.
SessionStep == lastStep.op = "updateFromSession"

\* body is "Logged in as: " followed by user, after any text.
NamesUser(body, user) ==
    \E i \in 0..Len(body) : body = SubSeq(body, 1, i) \o LoggedInAs \o user

\* What updateFromSession does without a session cookie and with a status
\* other than 200.
SessionExpiryResolves ==
    /\ ~lastStep.cookie =>
          /\ lastStep.sent = <<>> /\ lastStep.got = <<>>
          /\ lastStep.settled /\ lastStep.resolved /\ lastStep.value = "false"
    /\ (lastStep.got # <<>> /\ GotStatus # 200) =>
          lastStep.settled /\ lastStep.resolved /\ lastStep.value = "false"

\* C13 as stated: without a session cookie updateFromSession issues no request
\* and resolves false; a status other than 200 resolves false; status 200 sets
\* the logged-in user name to the name in the body and resolves true.
C13_AsStated ==
    SessionStep =>
        /\ SessionExpiryResolves
        /\ GotStatus = 200 =>
              /\ lastStep.settled /\ lastStep.resolved /\ lastStep.value = "true"
              /\ NamesUser(lastStep.got[1].text, _loggedInUser)

\* C13, amended: as above, but status 200 sets the user name and resolves true
\* only for a body that holds "Logged in as: "; for any other body the promise
\* rejects with a TypeError and the user name stays as it was.
C13_SessionUpdate ==
    [][SessionStep' =>
          /\ SessionExpiryResolves'
          /\ (GotStatus' = 200 /\ Contains(lastStep'.got[1].text, LoggedInAs)) =>
                /\ lastStep'.resolved /\ lastStep'.value = "true"
                /\ NamesUser(lastStep'.got[1].text, _loggedInUser')
          /\ (GotStatus' = 200 /\ ~Contains(lastStep'.got[1].text, LoggedInAs)) =>
                /\ lastStep'.settled /\ ~lastStep'.resolved
                /\ lastStep'.error = <<"TypeError">>
                /\ _loggedInUser' = _loggedInUser]_vars

C13_Witness ==
    /\ SessionStep /\ lastStep.cookie /\ GotStatus = 200 /\ lastStep.resolved
    /\ lastStep.before.user = <<"a">> /\ _loggedInUser = <<"b">>

\* The latest step handled the initial response of a login, a challenge
\* (status 403).
ChallengeHandled ==
    /\ lastStep.op = "login" /\ lastStep.pc = "initial"
    /\ lastStep.got # <<>> /\ lastStep.got[1].status = 403

\* Challenge headers whose N is no index of the registry of five groups: 5, 6,
\* -1 and a text that is no number.
BadIndexHeaders ==
    {Header(ParamsString(N, <<1>>, 2, TokenOne)) :
        N \in {<<"5">>, <<"6">>, <<"-", "1">>, <<"x">>}}

\* C14: a challenge whose N is not an index in [0, 5) makes the decoding fail
\* with the index error ('invalid prime index'); login rejects with it and
\* sends no proof request.
C14_BadIndexIsIndexError ==
    (ChallengeHandled /\ lastStep.got[1].header \in BadIndexHeaders)
        => /\ lastStep.settled /\ ~lastStep.resolved /\ lastStep.sent = <<>>
           /\ lastStep.error = <<"invalid prime index">>

\* C15: a challenge (status 403) without the header, or with a header that
\* lacks one of N, s, B, ss, makes login reject without a proof request, and
\* the SRP client is left as it was: no proof is computed, whatever server
\* info an earlier handshake left in it.
C15_IncompleteChallengeRejects ==
    [][(ChallengeHandled'
        /\ lastStep'.got[1].header \in {NoHeader} \cup IncompleteHeaders) =>
          /\ lastStep'.settled /\ ~lastStep'.resolved /\ lastStep'.sent = <<>>
          /\ srpClient' = srpClient]_vars

C15_Witness ==
    /\ ChallengeHandled /\ lastStep.got[1].header = NoHeader
    /\ Has(srpClient, "serverPublicKey") /\ Has(srpClient, "sharedKey")
    /\ lastStep.settled /\ ~lastStep.resolved

\* The latest call of a utility.
UtilCall == lastCall.client

\* The zero bytes of a left padding.
Zeros(n) == [i \in 1..n |-> 0]

\* C16: bigIntegerToBytes(n, width) returns exactly width bytes or throws.
\* With nat the byte array of n: if nat is no longer than width the result is
\* nat left-padded with zero bytes; if it is longer and the excess leading
\* bytes are all zero the result is its low width bytes; if an excess leading
\* byte is not zero the call throws the truncation error and returns nothing.
\* It throws exactly when n has more than width base-256 digits.
C16_FixedWidthOrFail ==
    UtilCall.op = "bigIntegerToBytes" =>
        LET n == UtilCall.arg[1]
            width == UtilCall.arg[2]
            nat == toByteArray(n)
            excess == Len(nat) - width
        IN  /\ UtilCall.ok => Len(UtilCall.val) = width
            /\ excess <= 0 =>
                  UtilCall.ok /\ UtilCall.val = Zeros(0 - excess) \o nat
            /\ (excess > 0 /\ \A i \in 1..excess : nat[i] = 0) =>
                  /\ UtilCall.ok
                  /\ UtilCall.val = SubSeq(nat, excess + 1, Len(nat))
            /\ (excess > 0 /\ \E i \in 1..excess : nat[i] # 0) =>
                  /\ ~UtilCall.ok /\ UtilCall.err = "attmpted to truncate"
                  /\ UtilCall.val = <<>>
            /\ UtilCall.ok <=> (n = 0 \/ Len(UnsignedBytes(n)) <= width)

C16_Witness ==
    /\ UtilCall.op = "bigIntegerToBytes" /\ UtilCall.arg = <<255, 1>>
    /\ UtilCall.ok /\ UtilCall.val = <<-1>>

\* C17: for a width of at least the length of the byte array of n, the bytes
\* of bigIntegerToBytes(n, width), written as a hex string and read as a
\* number, are n.
C17_RoundTrip ==
    (UtilCall.op = "bytesToInt"
     /\ UtilCall.arg[2] >= Len(toByteArray(UtilCall.arg[1])))
        => UtilCall.ok /\ UtilCall.val = UtilCall.arg[1]

C17_Witness ==
    /\ UtilCall.op = "bytesToInt" /\ UtilCall.arg = <<32768, 3>>
    /\ UtilCall.ok /\ UtilCall.val = 32768

\* The latest call is xorHashStrings(a, b) with strings of different lengths,
\* or with the same string twice.
XorMismatch ==
    UtilCall.op = "xorHashStrings" /\ Len(UtilCall.arg[1]) # Len(UtilCall.arg[2])
XorSelf == UtilCall.op = "xorHashStrings" /\ UtilCall.arg[1] = UtilCall.arg[2]

\* The call threw the length error.
XorLengthError == ~UtilCall.ok /\ UtilCall.err = "strings not same length"

\* The call returned n characters '0'.
XorZeros(n) == UtilCall.ok /\ UtilCall.val = Zeros(n)

\* C18 as stated: strings of different lengths give the length error, and
\* xorHashStrings(a, a) is a string of '0' characters as long as a.
C18_AsStated ==
    /\ XorMismatch => XorLengthError
    /\ XorSelf => XorZeros(Len(UtilCall.arg[1]))

\* C18, amended: strings of different lengths give the length error, and
\* xorHashStrings(a, a) is a string of '0' characters whose length is the
\* length of a rounded up to a multiple of 4: as long as a exactly when the
\* length of a is a multiple of 4.
C18_XorSelfIsZero ==
    /\ XorMismatch => XorLengthError
    /\ XorSelf => XorZeros(4 * ((Len(UtilCall.arg[1]) + 3) \div 4))

C18_Witness ==
    /\ XorSelf /\ UtilCall.arg[1] = <<10, 0, 0, 10>> /\ XorZeros(4)

\* The key and the value of a segment that holds '=': what stands before the
\* first '=' and what stands after it.
SegmentKey(seg) == SubSeq(seg, 1, IndexOf(seg, "="))
SegmentValue(seg) == SubSeq(seg, IndexOf(seg, "=") + 2, Len(seg))

\* C19: splitParamsString(s) throws the format error and returns no mapping
\* if a segment between commas holds no '='; otherwise it returns a mapping
\* whose keys are the texts before the first '=' of the segments, each with
\* everything after that '=' in the last segment of that key.
C19_SplitAtFirstEquals ==
    UtilCall.op = "splitParamsString" =>
        LET segs == Split(UtilCall.arg, ",")
        IN  IF \E i \in 1..Len(segs) : ~Contains(segs[i], <<"=">>)
            THEN /\ ~UtilCall.ok /\ UtilCall.val = <<>>
                 /\ UtilCall.err = "not a valid params string"
            ELSE /\ UtilCall.ok
                 /\ \A i \in 1..Len(segs) :
                       /\ Has(UtilCall.val, SegmentKey(segs[i]))
                       /\ (\A j \in (i + 1)..Len(segs) :
                              SegmentKey(segs[j]) # SegmentKey(segs[i]))
                          => UtilCall.val[SegmentKey(segs[i])]
                                 = SegmentValue(segs[i])

\* C20: makeUrlBase64 returns a string as long as its input, with '-' where
\* the input has '+', '_' where it has '/', and the input's character
\* everywhere else, '=' included.
C20_UrlSafeBase64 ==
    UtilCall.op = "makeUrlBase64" =>
        /\ UtilCall.ok /\ Len(UtilCall.val) = Len(UtilCall.arg)
        /\ \A i \in 1..Len(UtilCall.arg) :
              UtilCall.val[i] = CASE UtilCall.arg[i] = "+" -> "-"
                                  [] UtilCall.arg[i] = "/" -> "_"
                                  [] OTHER -> UtilCall.arg[i]

C20_Witness ==
    /\ UtilCall.op = "makeUrlBase64" /\ UtilCall.arg = <<"+", "/", "=">>
    /\ UtilCall.val = <<"-", "_", "=">>

\* The requests a login may go on with after its initial response.
IsFollowup(request, username) ==
    \/ request = PermissionsRequest(username)
    \/ request.method = "POST" /\ request.url = LoginPath

\* C21: the handshake is sequential and never retried.  A login issues its one
\* initial request when it is called; it issues at most one more request, the
\* permission fetch or the proof request, and issues it in the step that
\* handles the initial response; the steps that handle the follow-up response
\* issue no request, and the login settles with them.  A login in flight has
\* called fetch once while it waits for the initial response and twice
\* afterwards.
C21_SequentialHandshake ==
    /\ \A i \in 1..Len(pending) :
          pending[i].op = "login"
              => /\ pending[i].pc \in {"initial", "followup", "text"}
                 /\ pending[i].pc = "initial" => pending[i].requests = 1
                 /\ pending[i].pc # "initial" => pending[i].requests = 2
    /\ lastStep.op = "login"
          => /\ lastStep.pc = "call"
                   => /\ lastStep.sent = <<InitialLoginRequest(lastStep.username)>>
                      /\ lastStep.requests = 1 /\ ~lastStep.settled
             /\ lastStep.pc = "initial"
                   => /\ lastStep.got # <<>>
                      /\ lastStep.settled => lastStep.sent = <<>>
                      /\ ~lastStep.settled
                            => /\ Len(lastStep.sent) = 1
                               /\ IsFollowup(lastStep.sent[1], lastStep.username)
                      /\ lastStep.requests = 1 + Len(lastStep.sent)
             /\ lastStep.pc \in {"followup", "text"}
                   => /\ lastStep.got # <<>> /\ lastStep.sent = <<>>
                      /\ lastStep.requests = 2
                      /\ lastStep.settled \/ (lastStep.pc = "followup" /\ GotStatus = 200)
             /\ lastStep.pc \in {"call", "initial", "followup", "text"}

\* A login refused at its proof request, with another call in flight, settled
\* after two requests.
C21_Witness ==
    /\ LoginSettled /\ lastStep.pc = "followup" /\ lastStep.followup = "proof"
    /\ GotStatus = 403 /\ lastStep.requests = 2 /\ ~lastStep.alone
    /\ pending # <<>>

\* finishLogin was called on a started login with a public key A for which
\* u(A, B) is defined and not zero.
FinishUNonzero ==
    /\ FinishCalled
    /\ LET u == SRP_u(ServerCall.arg.clientPublicKey, srpServer.serverPublicKey)
       IN  u.ok /\ u.val # 0

\* Client proofs: none, of one digit, all zeros, all ones, and whatever proof
\* the client in the model last computed.
ProofsTried ==
    {<<>>, <<7>>, <<0, 0, 0, 0>>, <<15, 15, 15, 15>>}
        \cup (IF clientParams = <<>> THEN {} ELSE {clientParams[1].clientProof})

\* The key finishLogin derives from the public key it was handed; the proof
\* is no part of it.
FinishKey ==
    SRP_K(SRP_Ss(srpServer.modulus, ServerCall.arg.clientPublicKey,
                 srpServer.verifier,
                 SRP_u(ServerCall.arg.clientPublicKey,
                       srpServer.serverPublicKey).val,
                 srpServer.serverPrivateKey)).val

\* C22: finishLogin does not compare proofs.  Whenever u(A, B) is not zero the
\* call returns a serverProof and stores the sharedKey derived from A, v, u and
\* b, whatever clientProof it was handed, and it would have done so for every
\* other clientProof as well.
C22_NoProofComparison ==
    FinishUNonzero
        => /\ ServerCall.ok /\ DOMAIN ServerCall.val = {"serverProof"}
           /\ Has(srpServer, "sharedKey") /\ srpServer.sharedKey = FinishKey
           /\ \A M \in ProofsTried :
                 LET r == Server_finishLogin(
                              srpServer,
                              [clientPublicKey |-> ServerCall.arg.clientPublicKey,
                               clientProof |-> M])
                 IN  /\ r.ok /\ DOMAIN r.val = {"serverProof"}
                     /\ r.this.sharedKey = FinishKey

\* The client proved with the wrong password, the server was handed that
\* proof, and finishLogin returned a serverProof and stored a key that is not
\* the client's.
C22_Witness ==
    /\ FinishUNonzero /\ ServerCall.ok
    /\ GenerateCalled /\ ClientCall.ok
    /\ Has(srpClient, "password") /\ srpClient.password = <<"q">>
    /\ ServerCall.arg.clientPublicKey = ClientCall.val.clientPublicKey
    /\ ServerCall.arg.clientProof = ClientCall.val.clientProof
    /\ srpServer.sharedKey # srpClient.sharedKey

\* C23: once a login has resolved or rejected, the SRP client of the
\* controller does not hold the password of that login, and when the login
\* went through challenge and proof, neither the server info nor the shared
\* key it derived.
C23_ClientSessionDiscarded ==
    (LoginSettled /\ lastStep.alone)
        => /\ ~(Has(srpClient, "password")
                /\ srpClient.password = lastStep.password)
           /\ lastStep.followup = "proof"
                 => /\ ~Has(srpClient, "sharedKey")
                    /\ \A f \in {"modulus", "generator", "salt", "serverPublicKey"} :
                          ~Has(srpClient, f)

\* The fields of a challenge, and the errors setServerInfo has for a missing
\* one.
ServerInfoFields == {"modulus", "generator", "salt", "serverPublicKey"}
IncompleteServerInfoErrors ==
    {"serverInfo needs modulus", "serverInfo needs generator",
     "serverInfo needs salt", "serverInfo needs serverPublicKey"}

\* The client's latest call is setServerInfo with a challenge that lacks a
\* field.
IncompleteInfoSet ==
    /\ ClientCall.op = "setServerInfo"
    /\ \E f \in ServerInfoFields : ~Has(ClientCall.arg, f)

\* C24: setServerInfo is all-or-nothing.  With a challenge that lacks a field
\* the call fails with the error for a missing field and the client is left
\* as it was; with a complete challenge the call returns and the client's four
\* fields are the challenge's.
C24_SetServerInfoAllOrNothing ==
    [][ClientCall'.op = "setServerInfo"
          => IF IncompleteInfoSet'
             THEN /\ ~ClientCall'.ok
                  /\ ClientCall'.err \in IncompleteServerInfoErrors
                  /\ srpClient' = srpClient
             ELSE /\ ClientCall'.ok
                  /\ \A f \in ServerInfoFields :
                        Has(srpClient', f) /\ srpClient'[f] = ClientCall'.arg[f]]_vars

\* An incomplete challenge was refused by a client that holds the fields of
\* an earlier challenge, the one it lacks included.
C24_Witness ==
    /\ IncompleteInfoSet /\ ~ClientCall.ok
    /\ \A f \in ServerInfoFields : Has(srpClient, f)
    /\ Has(ClientCall.arg, "modulus") /\ ~Has(ClientCall.arg, "salt")

\* C25: whenever updateFromSession resolves false, without a session cookie or
\* for a status other than 200, getUserName() is the empty string afterwards.
C25_LoggedOutClearsUser ==
    (SessionStep /\ lastStep.settled /\ lastStep.resolved
     /\ lastStep.value = "false")
        => getUserName = <<>>

\* C26: cached permissions belong to the current identity.  A step that
\* changes the user getUserName() returns, to the empty string or to another
\* name, and stores no permission set of its own leaves a cache in which
\* hasPermission is true for no name: the permissions stored before it were
\* fetched for the user before it.
C26_PermissionsOfCurrentUser ==
    [][(_loggedInUser' # _loggedInUser /\ _loggedInUser # <<>>
        /\ cachedPermissions' = cachedPermissions)
          => \A p \in PermissionNames : hasPermission(p)' # Ok(TRUE)]_vars

\* The proof request of a login with username and password that received the
\* challenge in header and drew a: A = g^a, and M computed from the key this
\* identity derives from this challenge.
OwnProofRequest(username, password, header, a) ==
    With(decodeServerParamsString(header).val, LAMBDA info :
    With(SRP_A(info.modulus, info.generator, a), LAMBDA A :
    With(SRP_K(SRP_Sc(info.modulus, info.generator, info.serverPublicKey,
                      SRP_k(info.modulus, info.generator).val,
                      SRP_x(info.salt, username, password), a,
                      SRP_u(A, info.serverPublicKey).val)).val, LAMBDA K :
        ProofRequest(
            BodyA \o makeUrlBase64(bigIntToBase64(A, PadBytes).val)
            \o BodyM
            \o makeUrlBase64(hexStringToBase64(
                   SRP_Mc(info.modulus, info.generator, username, info.salt, A,
                          info.serverPublicKey, K).val))
            \o BodySs \o info.loginToken))))

\* The latest step is a login sending its proof request.
ProofSent ==
    /\ lastStep.op = "login" /\ lastStep.pc = "initial"
    /\ lastStep.sent # <<>> /\ lastStep.sent[1].method = "POST"

\* C27: the proof request a login sends carries the proof of its own username
\* and password over the challenge of its own initial response, whatever other
\* login is in flight.
C27_ProofOfOwnIdentity ==
    ProofSent
        => \E a \in 0..MaxSecret :
              lastStep.sent[1] =
                  OwnProofRequest(lastStep.username, lastStep.password,
                                  lastStep.got[1].header, a)

\* C28: for every client public key A with A mod N = 0, finishLogin aborts: it
\* returns no serverProof and stores no sharedKey.
C28_DegenerateKeyRejected ==
    (FinishCalled
     /\ ServerCall.arg.clientPublicKey % srpServer.modulus = 0)
        => /\ ~ServerCall.ok /\ ServerCall.val = <<>>
           /\ ~Has(srpServer, "sharedKey")

============================================================================
